---- MODULE Spec2Model ----
(***************************************************************************)
(* A model of the two subsystems of the stencil engine:                    *)
(*   - the commander/worker fabric of mpi_worker_commander.py              *)
(*     (MPI_Commander, mpi_worker_main, MPI_Worker), and                   *)
(*   - the stage machinery of enzyme/symbolic_value.py                     *)
(*     (discover_values, sort_values, AtomicStage, decompose).             *)
(* Python tuples and lists are 1-indexed sequences here: rank r, process   *)
(* row p and array row a of the source are element r+1, p+1, a+1.          *)
(***************************************************************************)
EXTENDS Integers, Sequences, FiniteSets, TLC

(***************************************************************************)
(* Bounds of the model.                                                    *)
(***************************************************************************)
\* SpecRanges: grid sizes 0..MaxN and process counts 1..MaxProc.
MaxN == 7
MaxProc == 4
\* SpecStage: every acyclic graph over the Values 1..MaxValues.
MaxValues == 3
\* SpecDecompose: the partitioner answers with stages in 0..MaxStage.
MaxStage == 2
\* Spec: NI * NJ <= MaxWorkers workers, tiles of about TileRows rows and columns,
\* at most MaxTasks calls of the commander's task methods and MaxDel of __del__.
MaxWorkers == 3
TileRows == 2
MaxTasks == 2
MaxDel == 2
\* SpecCalls: at most MaxCalls invocations of stages from the outside.
MaxCalls == 2
\* SpecSort: an operation of a graph that may be cyclic has at most MaxInputs inputs.
MaxInputs == 2

VARIABLES
    \* ---- MPI_Commander ----
    ni, nj, niProc, njProc,   \* the arguments of MPI_Commander.__init__
    iRanges, jRanges,         \* self.iRanges, self.jRanges
    rpc,                      \* SpecRanges: "args" before _i_ranges ran, "done" after
    \* ---- symbolic_value.py ----
    graph,             \* the Values: graph[v] = [owned, inputs, access_neighbor]
    source_values,     \* the sources given to AtomicStage / decompose
    sink_values,       \* the sinks given to AtomicStage / decompose
    concrete_sources,  \* the concrete values a caller supplies for the sources
    triburary,         \* the tributary resolver, Value -> concrete
    direct,            \* AtomicStage(source_values, sink_values)
    c_stage, d_stage,  \* the partitioner's answer, one entry per element of all_values
    stages,            \* the list decompose returns
    direct_out,        \* the result of calling direct
    piped,             \* the result of the stage called last (the next stage's sources)
    k_next,            \* the stage to call next, from 1
    dpc,               \* "graph", "constructed", "decomposed", "direct", "piping", "done"
    \* ---- the commander/worker fabric ----
    comm,              \* MPI_Commander.comm: "spawned", or "None" after __del__
    cpc,               \* the commander: "ready", or "gather" inside _gather_from_workers
    down,              \* per worker, what the commander sent on the intercommunicator
                       \* (send, bcast, scatter) and the worker has not yet received
    up,                \* per worker, the gather contributions not yet collected
    world,             \* per <<source, destination>>, the Isend messages of
                       \* MPI.COMM_WORLD not yet received, in sending order
    wpc,               \* per worker: "start", "bcast", "scatter", "recv", "done", "failed"
    worker,            \* per worker, its MPI_Worker instance
    pending,           \* per worker, the halo exchange in progress
    calls,             \* the calls of the commander's task methods so far
    \* ---- history, for stating the properties ----
    issued,            \* per task issued: the descriptor of each rank, how it was
                       \* delivered, whether the commander gathers
    wlog,              \* per worker, the tasks it ended: descriptor, delivery, gather,
                       \* return value, arguments substituted
    gather_log,        \* the lists _gather_from_workers returned, with the task
    stored,            \* per worker, per key, the array of the latest store to it
    halos,             \* per worker, per task with a halo exchange: result, padded array
    first_received,    \* per worker, the first message it received
    finalize_bcasts,   \* how often "finalize" was broadcast
    del_calls,         \* how often __del__ ran
    \* ---- symbolic_value.py, step by step ----
    discovered,        \* what discover_values returned: values, triburary
    sort_state,        \* sort_values between passes: sorted, unsorted, removed_any
    tmp_attr,          \* the attribute _tmp of the Values that have one
    call_log,          \* the invocations of stages made so far, with their outcome
    value_attr         \* per Value, the attributes attached to it after construction
                       \* other than _tmp

rangeVars == <<ni, nj, niProc, njProc, iRanges, jRanges, rpc>>
dagVars == <<graph, source_values, sink_values, concrete_sources, triburary, direct,
             c_stage, d_stage, stages, direct_out, piped, k_next, dpc,
             discovered, sort_state, tmp_attr, call_log, value_attr>>
mpiVars == <<comm, cpc, down, up, world, wpc, worker, pending, calls, issued, wlog,
             gather_log, stored, halos, first_received, finalize_bcasts, del_calls>>
vars == <<rangeVars, dagVars, mpiVars>>

\* The subsystems a specification does not exercise stay as constructed.
RangesIdle ==
    /\ ni = 0 /\ nj = 0 /\ niProc = 1 /\ njProc = 1
    /\ iRanges = <<>> /\ jRanges = <<>> /\ rpc = "idle"

DagIdle ==
    /\ graph = <<>> /\ source_values = <<>> /\ sink_values = <<>>
    /\ concrete_sources = <<>> /\ triburary = <<>> /\ direct = <<>>
    /\ c_stage = <<>> /\ d_stage = <<>> /\ stages = <<>>
    /\ direct_out = <<>> /\ piped = <<>> /\ k_next = 0 /\ dpc = "idle"
    /\ discovered = <<>> /\ sort_state = <<>> /\ tmp_attr = <<>> /\ call_log = <<>>
    /\ value_attr = [v \in 1..Len(graph) |-> <<>>]

MpiIdle ==
    /\ comm = "None" /\ cpc = "ready" /\ down = <<>> /\ up = <<>> /\ world = <<>>
    /\ wpc = <<>> /\ worker = <<>> /\ pending = <<>> /\ calls = 0 /\ issued = <<>>
    /\ wlog = <<>> /\ gather_log = <<>> /\ stored = <<>> /\ halos = <<>>
    /\ first_received = <<>> /\ finalize_bcasts = 0 /\ del_calls = 0

(***************************************************************************)
(* MPI_Commander._i_ranges                                                 *)
(***************************************************************************)
\* np.around of the non-negative quotient num / den: round half to even.
RoundHalfEven(num, den) ==
    LET q == num \div den
        r == num % den
    IN  IF 2 * r < den THEN q
        ELSE IF 2 * r > den THEN q + 1
        ELSE IF q % 2 = 0 THEN q ELSE q + 1

\* A slip a tiling could make: round the tile width first, then multiply.
IRangeBoundWidthFirst(n, nProc, p) == RoundHalfEven(n, nProc) * p

\* Element p of np.around(ni / niProc * np.arange(niProc + 1)).
IRangeBound(n, nProc, p) == RoundHalfEven(n * p, nProc)

\* tuple((iRanges[i], iRanges[i+1]) for i in range(niProc))
i_ranges(n, nProc) ==
    [p \in 1..nProc |-> <<IRangeBound(n, nProc, p - 1), IRangeBound(n, nProc, p)>>]

(***************************************************************************)
(* SpecRanges: _i_ranges as a function of its arguments.                   *)
(***************************************************************************)
InitRanges ==
    /\ ni \in 0..MaxN
    /\ nj \in 0..MaxN
    /\ niProc \in 1..MaxProc
    /\ njProc \in 1..MaxProc
    /\ iRanges = <<>>
    /\ jRanges = <<>>
    /\ rpc = "args"
    /\ DagIdle
    /\ MpiIdle

ComputeRanges ==
    /\ rpc = "args"
    /\ iRanges' = i_ranges(ni, niProc)
    /\ jRanges' = i_ranges(nj, njProc)
    /\ rpc' = "done"
    /\ UNCHANGED <<ni, nj, niProc, njProc>>
    /\ UNCHANGED <<dagVars, mpiVars>>

NextRanges == ComputeRanges

SpecRanges == InitRanges /\ [][NextRanges]_vars

\* The cells of 0..n-1 that lie in tile p of ranges (start inclusive, end exclusive).
TileCells(ranges, p) == {x \in 0..(MaxN + 1) : ranges[p][1] <= x /\ x < ranges[p][2]}

IsPartition(ranges, n, nProc) ==
    /\ Len(ranges) = nProc
    /\ ranges[1][1] = 0
    /\ ranges[nProc][2] = n
    /\ \A p \in 1..nProc : ranges[p][1] <= ranges[p][2]
    /\ \A p \in 1..(nProc - 1) : ranges[p][2] = ranges[p + 1][1]
    /\ \A x \in 0..(n - 1) : Cardinality({p \in 1..nProc : x \in TileCells(ranges, p)}) = 1
    /\ \A p \in 1..nProc : TileCells(ranges, p) \subseteq 0..(n - 1)

\* C4: the boundaries from _i_ranges are non-decreasing, start at 0, end at
\* ni (resp. nj), each tile ends where the next starts, and so the NI x NJ
\* interiors cover every cell of the global grid exactly once.
C4_TilingPartition ==
    rpc = "done" =>
        /\ IsPartition(iRanges, ni, niProc)
        /\ IsPartition(jRanges, nj, njProc)
        /\ \A x \in 0..(ni - 1), y \in 0..(nj - 1) :
              Cardinality({pq \in (1..niProc) \X (1..njProc) :
                  x \in TileCells(iRanges, pq[1]) /\ y \in TileCells(jRanges, pq[2])}) = 1

\* A grid that does not divide evenly, with a boundary that falls on a tie
\* (x.5) and an empty tile next to a non-empty one.
C4_Witness ==
    /\ rpc = "done"
    /\ niProc = 4 /\ ni = 2
    /\ iRanges = <<<<0, 0>>, <<0, 1>>, <<1, 2>>, <<2, 2>>>>
    /\ njProc = 3 /\ nj = 7

(***************************************************************************)
(* symbolic_value.py: Values, discovery and topological sort.              *)
(* A Value is an id in 1..n. graph[v].owned says whether v.owner is an     *)
(* operation; graph[v].inputs is v.owner.inputs, where 0 stands for an     *)
(* input that is no Value (a raw constant: it has no attribute owner);     *)
(* graph[v].access_neighbor is v.owner.access_neighbor.                    *)
(***************************************************************************)
InSeq(x, s) == \E i \in 1..Len(s) : s[i] = x

\* hasattr(v, 'owner')
HasOwnerAttr(v) == v # 0

\* _is_like_sa_value: every operation of the model exposes access_neighbor.
is_like_sa_value(g, a) == HasOwnerAttr(a)

\* A slip discover_values could make: never stop at a source.
in_source_values_never(v, srcs) == FALSE

\* v in source_values
in_source_values(v, srcs) == InSeq(v, srcs)

RECURSIVE discover_values_from(_, _, _, _)
RECURSIVE discover_each(_, _, _, _, _)
\* The nested function of discover_values; st holds the two lists it appends to.
discover_values_from(g, srcs, st, v) ==
    IF ~HasOwnerAttr(v) THEN st
    ELSE IF in_source_values(v, srcs) THEN st
    ELSE IF ~g[v].owned
         THEN IF InSeq(v, st.triburary) THEN st
              ELSE [st EXCEPT !.triburary = Append(@, v)]
    ELSE IF InSeq(v, st.values) THEN st
    ELSE discover_each(g, srcs, [st EXCEPT !.values = Append(@, v)], g[v].inputs, 1)

\* for v_inp in vs: discover_values_from(v_inp), from element i on.
discover_each(g, srcs, st, vs, i) ==
    IF i > Len(vs) THEN st
    ELSE discover_each(g, srcs, discover_values_from(g, srcs, st, vs[i]), vs, i + 1)

discover_values(g, srcs, snks) ==
    discover_each(g, srcs, [values |-> <<>>, triburary |-> <<>>], snks, 1)

\* A slip sort_values could make: take every Value as ready.
is_computable_always(g, sorted, v) == TRUE

is_computable(g, sorted, v) ==
    \/ ~is_like_sa_value(g, v)
    \/ InSeq(v, sorted)
    \/ ~g[v].owned

RemoveAt(s, i) == SubSeq(s, 1, i - 1) \o SubSeq(s, i + 1, Len(s))

RECURSIVE sort_pass(_, _, _)
\* One "for v in unsorted_values" pass. The list iterator keeps an index: after
\* unsorted_values.remove(v) at index i the next element visited is the one at
\* index i + 1 of the shortened list, so the element that followed v is skipped
\* in this pass.
sort_pass(g, st, i) ==
    IF i > Len(st.unsorted) THEN st
    ELSE LET v == st.unsorted[i]
         IN  IF \A m \in 1..Len(g[v].inputs) : is_computable(g, st.sorted, g[v].inputs[m])
             THEN sort_pass(g, [sorted |-> Append(st.sorted, v),
                                unsorted |-> RemoveAt(st.unsorted, i),
                                removed_any |-> TRUE], i + 1)
             ELSE sort_pass(g, st, i + 1)

RECURSIVE sort_values(_, _, _)
\* while len(unsorted_values): one pass; assert removed_any. ok is FALSE when the
\* assertion fails.
sort_values(g, sorted, unsorted) ==
    IF Len(unsorted) = 0 THEN [ok |-> TRUE, sorted |-> sorted, unsorted |-> unsorted]
    ELSE LET st == sort_pass(g, [sorted |-> sorted, unsorted |-> unsorted,
                                 removed_any |-> FALSE], 1)
         IN  IF ~st.removed_any
             THEN [ok |-> FALSE, sorted |-> st.sorted, unsorted |-> st.unsorted]
             ELSE sort_values(g, st.sorted, st.unsorted)

\* AtomicStage.__init__; ok is FALSE when one of its assertions fails.
AtomicStage(g, srcs, snks) ==
    LET d == discover_values(g, srcs, snks)
        s == sort_values(g, srcs, d.values)
    IN  [ok |-> s.ok /\ s.unsorted = <<>>,
         source_values |-> SubSeq(s.sorted, 1, Len(srcs)),
         triburary_values |-> d.triburary,
         sorted_values |-> SubSeq(s.sorted, Len(srcs) + 1, Len(s.sorted)),
         sink_values |-> snks]

(***************************************************************************)
(* AtomicStage.__call__. The attribute _tmp of the Values is the function  *)
(* tmp: v \in DOMAIN tmp is hasattr(v, '_tmp').                            *)
(***************************************************************************)
\* v.owner.perform(inputs_tmp): the operations are external; each is taken as an
\* uninterpreted function of its own identity and its ordered inputs.
RECURSIVE HashInputs(_, _)
HashInputs(xs, i) ==
    IF i > Len(xs) THEN 0 ELSE ((2 * i + 1) * xs[i] + 3 * HashInputs(xs, i + 1)) % 9973

Perform(v, xs) == 100 + ((37 * v + HashInputs(xs, 1)) % 9973)

RECURSIVE assign_tmp(_, _, _, _)
\* for v, v_tmp in zip(values, tmp_values): assert not hasattr(v, '_tmp'); v._tmp = v_tmp
assign_tmp(values, tmp_values, tmp, i) ==
    IF i > Len(values) THEN [ok |-> TRUE, tmp |-> tmp]
    ELSE IF values[i] \in DOMAIN tmp THEN [ok |-> FALSE, tmp |-> tmp]
    ELSE assign_tmp(values, tmp_values, tmp @@ (values[i] :> tmp_values[i]), i + 1)

\* _tmp = lambda v : v._tmp if _is_like_sa_value(v) else v, applied to each input;
\* reading a missing attribute raises.
InputsReadable(g, tmp, v) ==
    \A m \in 1..Len(g[v].inputs) :
        is_like_sa_value(g, g[v].inputs[m]) => g[v].inputs[m] \in DOMAIN tmp

InputsTmp(g, tmp, v) ==
    [m \in 1..Len(g[v].inputs) |->
        IF is_like_sa_value(g, g[v].inputs[m]) THEN tmp[g[v].inputs[m]] ELSE g[v].inputs[m]]

RECURSIVE compute_tmp(_, _, _, _)
\* for v in self.sorted_values: assert not hasattr(v, '_tmp'); v._tmp = perform(...)
compute_tmp(g, sorted, tmp, i) ==
    IF i > Len(sorted) THEN [ok |-> TRUE, tmp |-> tmp]
    ELSE LET v == sorted[i]
         IN  IF v \in DOMAIN tmp \/ ~InputsReadable(g, tmp, v)
             THEN [ok |-> FALSE, tmp |-> tmp]
             ELSE compute_tmp(g, sorted, tmp @@ (v :> Perform(v, InputsTmp(g, tmp, v))), i + 1)

\* A slip __call__ could make: return the sinks' values in reverse order.
sink_tuple_reversed(snks, tmp) == [m \in 1..Len(snks) |-> tmp[snks[Len(snks) + 1 - m]]]

\* tuple(v._tmp for v in self.sink_values)
sink_tuple(snks, tmp) == [m \in 1..Len(snks) |-> tmp[snks[m]]]

\* AtomicStage.__call__ entered with the attributes tmp0 on the Values. ok is
\* FALSE when an assertion fails or an attribute is missing; tmp is what is then
\* (or on return) attached to the Values.
StageCall(g, stage, concrete, resolver, tmp0) ==
    IF Len(stage.source_values) # Len(concrete)
    THEN [ok |-> FALSE, out |-> <<>>, tmp |-> tmp0]
    ELSE
    LET values == stage.source_values \o stage.triburary_values
        tmp_values == concrete \o [m \in 1..Len(stage.triburary_values) |->
                                      resolver[stage.triburary_values[m]]]
        a == assign_tmp(values, tmp_values, tmp0, 1)
        b == compute_tmp(g, stage.sorted_values, a.tmp, 1)
        all == values \o stage.sorted_values
    IN  IF ~a.ok THEN [ok |-> FALSE, out |-> <<>>, tmp |-> a.tmp]
        ELSE IF ~b.ok THEN [ok |-> FALSE, out |-> <<>>, tmp |-> b.tmp]
        ELSE IF \E m \in 1..Len(stage.sink_values) : stage.sink_values[m] \notin DOMAIN b.tmp
        THEN [ok |-> FALSE, out |-> <<>>, tmp |-> b.tmp]
        ELSE [ok |-> TRUE, out |-> sink_tuple(stage.sink_values, b.tmp),
              tmp |-> [v \in (DOMAIN b.tmp) \ {all[m] : m \in 1..Len(all)} |-> b.tmp[v]]]

(***************************************************************************)
(* decompose, from the partitioner's answer (c, d) on.                     *)
(***************************************************************************)
\* all_values = list(values) + list(source_values)
all_values_of(g, srcs, snks) == discover_values(g, srcs, snks).values \o srcs

\* hasattr(v, name), setattr(v, name, x) and del v.name on the attributes the
\* Values carry besides shape and owner.
HasAttr(attrs, v, name) == name \in DOMAIN attrs[v]

SetAttr(attrs, v, name, x) ==
    [attrs EXCEPT ![v] = [n \in (DOMAIN attrs[v]) \cup {name} |->
                             IF n = name THEN x ELSE attrs[v][n]]]

DelAttr(attrs, v, name) ==
    [attrs EXCEPT ![v] = [n \in (DOMAIN attrs[v]) \ {name} |-> attrs[v][n]]]

RECURSIVE assign_value_ids(_, _, _)
\* for i, v in enumerate(all_values): v._value_id = i
assign_value_ids(all, attrs, i) ==
    IF i > Len(all) THEN attrs
    ELSE assign_value_ids(all, SetAttr(attrs, all[i], "_value_id", i - 1), i + 1)

\* A slip build_graph could make: drop the stencil flag of the edges.
value_edges_unflagged(g, attrs, v) ==
    IF ~g[v].owned THEN <<>>
    ELSE LET ins == SelectSeq(g[v].inputs,
                       LAMBDA u : HasOwnerAttr(u) /\ HasAttr(attrs, u, "_value_id"))
         IN  [m \in 1..Len(ins) |->
                <<attrs[ins[m]]["_value_id"], attrs[v]["_value_id"], 0>>]

\* The edges build_graph appends for v: none if v has no owner, else one per
\* input that carries _value_id.
value_edges(g, attrs, v) ==
    IF ~g[v].owned THEN <<>>
    ELSE LET ins == SelectSeq(g[v].inputs,
                       LAMBDA u : HasOwnerAttr(u) /\ HasAttr(attrs, u, "_value_id"))
         IN  [m \in 1..Len(ins) |->
                <<attrs[ins[m]]["_value_id"], attrs[v]["_value_id"],
                  IF g[v].access_neighbor THEN 1 ELSE 0>>]

RECURSIVE graph_edges(_, _, _, _)
graph_edges(g, all, attrs, i) ==
    IF i > Len(all) THEN <<>>
    ELSE value_edges(g, attrs, all[i]) \o graph_edges(g, all, attrs, i + 1)

RECURSIVE delete_value_ids(_, _, _)
\* for v in all_values: del v._value_id; deleting a missing attribute raises.
delete_value_ids(all, attrs, i) ==
    IF i > Len(all) THEN [ok |-> TRUE, attrs |-> attrs]
    ELSE IF ~HasAttr(attrs, all[i], "_value_id") THEN [ok |-> FALSE, attrs |-> attrs]
    ELSE delete_value_ids(all, DelAttr(attrs, all[i], "_value_id"), i + 1)

\* build_graph but for the weights (the sizes of the Values): the edges, and the
\* attributes the Values carry when it returns or raises.
build_graph(g, all, attrs) ==
    LET a == assign_value_ids(all, attrs, 1)
        r == delete_value_ids(all, a, 1)
    IN  [ok |-> r.ok, edges |-> graph_edges(g, all, a, 1), attrs |-> r.attrs]

RECURSIVE set_stage_attrs(_, _, _, _, _)
\* for i, v in enumerate(all_values): v.create_stage = c[i]; v.discard_stage = d[i]
set_stage_attrs(all, c, d, attrs, i) ==
    IF i > Len(all) THEN attrs
    ELSE set_stage_attrs(all, c, d,
             SetAttr(SetAttr(attrs, all[i], "create_stage", c[i]),
                     all[i], "discard_stage", d[i]), i + 1)

RECURSIVE SeqMax(_, _)
\* d.max(), over the elements from i on
SeqMax(s, i) ==
    IF i >= Len(s) THEN s[i]
    ELSE LET m == SeqMax(s, i + 1) IN IF s[i] > m THEN s[i] ELSE m

\* v.create_stage / v.discard_stage after "for i, v in enumerate(all_values)": the
\* attribute holds the column's entry at the last index of v.
StageAttr(all, col, v) ==
    col[CHOOSE i \in 1..Len(all) : all[i] = v /\ \A j \in (i + 1)..Len(all) : all[j] # v]

\* A slip the boundary test could make: keep a Value one boundary too long.
alive_at_inclusive(cv, dv, k) == cv <= k /\ dv >= k

\* v.create_stage <= k and v.discard_stage > k
alive_at(cv, dv, k) == cv <= k /\ dv > k

next_stage_source(all, c, d, k) ==
    SelectSeq(all, LAMBDA v : alive_at(StageAttr(all, c, v), StageAttr(all, d, v), k))

\* A slip decompose could make: never advance stage_source.
keep_stage_source(stage_source, nxt) == stage_source

\* stage_source = next_stage_source
advance_stage_source(stage_source, nxt) == nxt

RECURSIVE decompose_loop(_, _, _, _, _, _, _, _, _)
\* for k in range(1, num_stages): ...; then the final stage.
decompose_loop(g, all, c, d, snks, stage_source, k, num_stages, acc) ==
    IF k >= num_stages
    THEN Append(acc, AtomicStage(g, stage_source, snks))
    ELSE LET nxt == next_stage_source(all, c, d, k)
         IN  decompose_loop(g, all, c, d, snks, advance_stage_source(stage_source, nxt),
                            k + 1, num_stages, Append(acc, AtomicStage(g, stage_source, nxt)))

decompose(g, srcs, snks, c, d) ==
    LET all == all_values_of(g, srcs, snks)
    IN  decompose_loop(g, all, c, d, snks, srcs, 1, SeqMax(d, 1), <<>>)

(***************************************************************************)
(* The stage machinery as a state machine: construct the direct stage,     *)
(* call it, decompose, then call the stages in order, each fed the tuple   *)
(* the one before it returned.                                             *)
(***************************************************************************)
Independent == [owned |-> FALSE, inputs |-> <<>>, access_neighbor |-> FALSE]
Dependent(inps, an) == [owned |-> TRUE, inputs |-> inps, access_neighbor |-> an]

RECURSIVE AscSeq(_)
AscSeq(S) ==
    IF S = {} THEN <<>>
    ELSE LET x == CHOOSE y \in S : \A z \in S : y <= z IN <<x>> \o AscSeq(S \ {x})

Reverse(s) == [m \in 1..Len(s) |-> s[Len(s) + 1 - m]]

\* What Value v may be in an acyclic graph: independent, or produced from Values
\* constructed before it, listed in either order.
NodeChoices(v) ==
    {Independent}
        \cup {Dependent(AscSeq(S), FALSE) : S \in SUBSET (1..(v - 1))}
        \cup {Dependent(Reverse(AscSeq(S)), FALSE) : S \in SUBSET (1..(v - 1))}

AcyclicGraphs(n) ==
    {g \in [1..n -> UNION {NodeChoices(v) : v \in 1..n}] : \A v \in 1..n : g[v] \in NodeChoices(v)}

\* The concrete value a caller supplies for source m, and the resolver's answer
\* for Value v.
ConcreteSource(m) == 10 + m
Resolve(v) == 20 + v

InitStage ==
    /\ RangesIdle
    /\ MpiIdle
    /\ graph \in AcyclicGraphs(MaxValues)
    /\ source_values \in {AscSeq(S) : S \in SUBSET (1..MaxValues)}
    /\ sink_values \in {AscSeq(S) : S \in (SUBSET (1..MaxValues)) \ {{}}}
    /\ concrete_sources = [m \in 1..Len(source_values) |-> ConcreteSource(m)]
    /\ triburary = [v \in 1..MaxValues |-> Resolve(v)]
    /\ direct = <<>> /\ c_stage = <<>> /\ d_stage = <<>> /\ stages = <<>>
    /\ direct_out = <<>> /\ piped = <<>> /\ k_next = 0
    /\ discovered = <<>> /\ sort_state = <<>> /\ tmp_attr = <<>> /\ call_log = <<>>
    /\ value_attr = [v \in 1..Len(graph) |-> <<>>]
    /\ dpc = "graph"

\* direct = AtomicStage(source_values, sink_values)
Construct ==
    /\ dpc = "graph"
    /\ direct' = AtomicStage(graph, source_values, sink_values)
    /\ dpc' = "constructed"
    /\ UNCHANGED <<graph, source_values, sink_values, concrete_sources, triburary,
                   c_stage, d_stage, stages, direct_out, piped, k_next,
                   discovered, sort_state, tmp_attr, call_log, value_attr>>
    /\ UNCHANGED <<rangeVars, mpiVars>>

\* direct(concrete_sources, triburary)
CallDirect ==
    /\ dpc = "constructed"
    /\ direct.ok
    /\ direct_out' = StageCall(graph, direct, concrete_sources, triburary, tmp_attr)
    /\ tmp_attr' = direct_out'.tmp
    /\ dpc' = "direct"
    /\ UNCHANGED <<graph, source_values, sink_values, concrete_sources, triburary,
                   direct, c_stage, d_stage, stages, piped, k_next,
                   discovered, sort_state, call_log, value_attr>>
    /\ UNCHANGED <<rangeVars, mpiVars>>

NextStage == Construct \/ CallDirect

SpecStage == InitStage /\ [][NextStage]_vars

Count(x, s) == Cardinality({i \in 1..Len(s) : s[i] = x})

IsPermutationOf(s, t) ==
    /\ Len(s) = Len(t)
    /\ \A i \in 1..Len(t) : Count(t[i], s) = Count(t[i], t)

\* C6: sorted_values of an AtomicStage built from an acyclic graph is a
\* permutation of the discovered internal Values (none lost or duplicated by the
\* removal during iteration), and every internal Value comes after every owned
\* input of its owner that is not a formal source.
C6_TopologicalSoundness ==
    dpc \in {"constructed", "direct"} =>
        LET found == discover_values(graph, source_values, sink_values).values
            sorted == direct.sorted_values
        IN  /\ direct.ok
            /\ direct.source_values = source_values
            /\ IsPermutationOf(sorted, found)
            /\ \A i \in 1..Len(sorted) : \A m \in 1..Len(graph[sorted[i]].inputs) :
                  LET u == graph[sorted[i]].inputs[m]
                  IN  (HasOwnerAttr(u) /\ graph[u].owned /\ ~InSeq(u, source_values))
                          => \E j \in 1..(i - 1) : sorted[j] = u

\* Three internal Values of which the second is skipped by the first pass (the
\* first was removed under the iterator) and sorted last.
C6_Witness ==
    /\ dpc = "constructed"
    /\ discover_values(graph, source_values, sink_values).values = <<1, 2, 3>>
    /\ direct.sorted_values = <<1, 3, 2>>

(***************************************************************************)
(* SpecDecompose: decompose over a family of graphs, for every partitioner *)
(* answer with 0 <= c[v] <= d[v] <= MaxStage.                              *)
(***************************************************************************)
\* b = stencil(a), c = stencil(b): source a, sink c.
TwoStepStencil ==
    [graph |-> <<Independent, Dependent(<<1>>, TRUE), Dependent(<<2>>, TRUE)>>,
     sources |-> <<1>>, sinks |-> <<3>>]

\* A tributary (2) and a raw constant (0) feed the operations: 3 = op(1, 2, 0),
\* 4 = stencil(3, 2).
WithTributary ==
    [graph |-> <<Independent, Independent, Dependent(<<1, 2, 0>>, FALSE),
                 Dependent(<<3, 2>>, TRUE)>>,
     sources |-> <<1>>, sinks |-> <<4>>]

\* 2 = stencil(1), 3 = op(1), 4 = op(2, 3).
Diamond ==
    [graph |-> <<Independent, Dependent(<<1>>, TRUE), Dependent(<<1>>, FALSE),
                 Dependent(<<2, 3>>, FALSE)>>,
     sources |-> <<1>>, sinks |-> <<4>>]

\* Two sources and two sinks: 3 = op(1, 2), 4 = stencil(3).
TwoSinks ==
    [graph |-> <<Independent, Independent, Dependent(<<1, 2>>, FALSE),
                 Dependent(<<3>>, TRUE)>>,
     sources |-> <<1, 2>>, sinks |-> <<3, 4>>]

\* A source that has an owner: 2 = op(1) is the source, 3 = stencil(2).
OwnedSource ==
    [graph |-> <<Independent, Dependent(<<1>>, FALSE), Dependent(<<2>>, TRUE)>>,
     sources |-> <<2>>, sinks |-> <<3>>]

\* Two stencils with a plain operation between them: 2 = stencil(1), 3 = op(2),
\* 4 = stencil(3).
StencilChain ==
    [graph |-> <<Independent, Dependent(<<1>>, TRUE), Dependent(<<2>>, FALSE),
                 Dependent(<<3>>, TRUE)>>,
     sources |-> <<1>>, sinks |-> <<4>>]

\* A source produced by a stencil of a stencil: 2 = stencil(1), 3 = stencil(2) is
\* the source, 4 = stencil(3).
StencilSource ==
    [graph |-> <<Independent, Dependent(<<1>>, TRUE), Dependent(<<2>>, TRUE),
                 Dependent(<<3>>, TRUE)>>,
     sources |-> <<3>>, sinks |-> <<4>>]

\* No formal source, two stencils behind a tributary: 2 = stencil(1),
\* 3 = stencil(2).
TributaryStencils ==
    [graph |-> <<Independent, Dependent(<<1>>, TRUE), Dependent(<<2>>, TRUE)>>,
     sources |-> <<>>, sinks |-> <<3>>]

DecomposeCases ==
    {TwoStepStencil, WithTributary, Diamond, TwoSinks, OwnedSource, StencilChain,
     StencilSource, TributaryStencils}

InitDecompose ==
    /\ RangesIdle
    /\ MpiIdle
    /\ \E case \in DecomposeCases :
          /\ graph = case.graph
          /\ source_values = case.sources
          /\ sink_values = case.sinks
    /\ concrete_sources = [m \in 1..Len(source_values) |-> ConcreteSource(m)]
    \* The resolver either knows the sources by the values supplied for them or
    \* answers for them as for any other Value.
    /\ \E agree \in BOOLEAN :
          triburary = [v \in 1..Len(graph) |->
              IF agree /\ InSeq(v, source_values)
              THEN ConcreteSource(CHOOSE m \in 1..Len(source_values) : source_values[m] = v)
              ELSE Resolve(v)]
    /\ direct = <<>> /\ c_stage = <<>> /\ d_stage = <<>> /\ stages = <<>>
    /\ direct_out = <<>> /\ piped = <<>> /\ k_next = 0
    /\ discovered = <<>> /\ sort_state = <<>> /\ tmp_attr = <<>> /\ call_log = <<>>
    /\ value_attr = [v \in 1..Len(graph) |-> <<>>]
    /\ dpc = "graph"

\* stages = decompose(source_values, sink_values), the partitioner answering
\* (c, d). d.max() needs at least one vertex.
Decompose ==
    /\ dpc = "direct"
    /\ LET all == all_values_of(graph, source_values, sink_values)
           built == build_graph(graph, all, value_attr)
       IN  /\ Len(all) > 0
           /\ built.ok
           /\ \E c \in [1..Len(all) -> 0..MaxStage], d \in [1..Len(all) -> 0..MaxStage] :
                 /\ \A i \in 1..Len(all) : c[i] <= d[i]
                 /\ c_stage' = c
                 /\ d_stage' = d
                 /\ value_attr' = set_stage_attrs(all, c, d, built.attrs, 1)
                 /\ stages' = decompose(graph, source_values, sink_values, c, d)
    /\ piped' = [ok |-> TRUE, out |-> concrete_sources]
    /\ k_next' = 1
    /\ dpc' = "piping"
    /\ UNCHANGED <<graph, source_values, sink_values, concrete_sources, triburary,
                   direct, direct_out, discovered, sort_state, tmp_attr, call_log>>
    /\ UNCHANGED <<rangeVars, mpiVars>>

\* The next stage, fed the tuple the stage before it returned. A stage that
\* raises ends the evaluation.
CallStage ==
    /\ dpc = "piping"
    /\ LET r == StageCall(graph, stages[k_next], piped.out, triburary, tmp_attr)
       IN  /\ piped' = [ok |-> r.ok, out |-> r.out]
           /\ tmp_attr' = r.tmp
           /\ dpc' = IF r.ok /\ k_next < Len(stages) THEN "piping" ELSE "done"
    /\ k_next' = k_next + 1
    /\ UNCHANGED <<graph, source_values, sink_values, concrete_sources, triburary,
                   direct, c_stage, d_stage, stages, direct_out,
                   discovered, sort_state, call_log, value_attr>>
    /\ UNCHANGED <<rangeVars, mpiVars>>

NextDecompose == Construct \/ CallDirect \/ Decompose \/ CallStage

SpecDecompose == InitDecompose /\ [][NextDecompose]_vars

\* The concrete sink values of the staged evaluation equal those of the direct one.
StagedEqualsDirect ==
    /\ direct_out.ok
    /\ piped.ok
    /\ piped.out = direct_out.out

\* No stage after the first reaches, behind its own formal sources, a formal
\* source of the DAG: each source is kept alive across every boundary behind
\* which it is still read.
SourcesKept ==
    \A k \in 2..Len(stages) : \A m \in 1..Len(source_values) :
        /\ ~InSeq(source_values[m], stages[k].triburary_values)
        /\ ~InSeq(source_values[m], stages[k].sorted_values)

\* C3 as stated: for every partitioner answer with c[v] <= d[v], the stages
\* called in order, each fed the tuple the one before returned, yield the sink
\* values of the single AtomicStage(sources, sinks).
C3_StageClosure_AsStated == dpc = "done" => StagedEqualsDirect

\* C3 amended: the same, for every answer under which SourcesKept holds.
C3_StageClosure == (dpc = "done" /\ SourcesKept) => StagedEqualsDirect

\* Two stages that both compute something, the second from the first's output.
C3_Witness ==
    /\ dpc = "done"
    /\ SourcesKept
    /\ Len(stages) = 2
    /\ stages[1].sorted_values # <<>>
    /\ stages[2].sorted_values # <<>>
    /\ stages[2].source_values # source_values
    /\ Len(stages[2].source_values) = 2
    /\ StagedEqualsDirect

RECURSIVE BoundaryFrom(_, _, _)
\* {v in A : c[v] <= k and d[v] > k} in the order of A, from index i on.
BoundaryFrom(all, k, i) ==
    IF i > Len(all) THEN <<>>
    ELSE (IF c_stage[i] <= k /\ d_stage[i] > k THEN <<all[i]>> ELSE <<>>)
             \o BoundaryFrom(all, k, i + 1)

StageChain(n) ==
    LET all == all_values_of(graph, source_values, sink_values)
    IN  /\ Len(stages) = n
        /\ stages[1].source_values = source_values
        /\ \A k \in 1..(Len(stages) - 1) :
              /\ stages[k].sink_values = BoundaryFrom(all, k, 1)
              /\ stages[k + 1].source_values = stages[k].sink_values
        /\ stages[Len(stages)].sink_values = sink_values

\* C10 as stated: decompose returns exactly N = max(d) stages, chained through
\* the boundary sets, stage 0 from the sources and the last stage to the sinks.
C10_StageChain_AsStated ==
    dpc \in {"piping", "done"} => StageChain(SeqMax(d_stage, 1))

\* C10 amended: exactly max(1, max(d)) stages (the final stage is always
\* appended), chained in the same way.
C10_StageChain ==
    dpc \in {"piping", "done"} =>
        StageChain(IF SeqMax(d_stage, 1) >= 1 THEN SeqMax(d_stage, 1) ELSE 1)

\* b = stencil(a), c = stencil(b) with boundary set {b}: two stages a -> b, b -> c.
C10_Witness ==
    /\ dpc = "piping"
    /\ graph = TwoStepStencil.graph
    /\ SeqMax(d_stage, 1) = 2
    /\ Len(stages) = 2
    /\ stages[1].source_values = <<1>> /\ stages[1].sorted_values = <<2>>
    /\ stages[1].sink_values = <<2>>
    /\ stages[2].source_values = <<2>> /\ stages[2].sorted_values = <<3>>
    /\ stages[2].sink_values = <<3>>

(***************************************************************************)
(* mpi_worker_commander.py: the values that travel between commander and   *)
(* workers. A Python value is a record tagged with its type; an ndarray of *)
(* two dimensions is the sequence of its rows.                             *)
(***************************************************************************)
PyNone == [t |-> "None"]
PyInt(v) == [t |-> "int", v |-> v]
PyStr(v) == [t |-> "str", v |-> v]
\* A callable passed by value (np.sum, operator.add, a lambda), named by what it computes.
PyFunction(v) == [t |-> "function", v |-> v]
NdArray(a) == [t |-> "ndarray", a |-> a]
PyTuple(v) == [t |-> "tuple", v |-> v]
\* An exception raised where a value was expected.
Raised == [t |-> "raise"]

\* WorkerVariable(key); the keys WorkerVariable() draws from its global counter
\* are written "v0", "v1", ...
WorkerVariable(key) == [t |-> "WorkerVariable", key |-> key]
is_worker_variable(x) == x.t = "WorkerVariable"

ZERO == WorkerVariable("_z")
I == WorkerVariable("i")
J == WorkerVariable("j")

Rows(a) == Len(a)
Cols(a) == IF Len(a) = 0 THEN 0 ELSE Len(a[1])
Shape(a) == <<Rows(a), Cols(a)>>

\* np.outer(np.arange(i0 - 1, i1 + 1), np.ones(j1 - j0 + 2, int))
OuterI(i0, i1, j0, j1) == [a \in 1..(i1 - i0 + 2) |-> [b \in 1..(j1 - j0 + 2) |-> i0 - 2 + a]]
\* np.outer(np.ones(i1 - i0 + 2, int), np.arange(j0 - 1, j1 + 1))
OuterJ(i0, i1, j0, j1) == [a \in 1..(i1 - i0 + 2) |-> [b \in 1..(j1 - j0 + 2) |-> j0 - 2 + b]]
\* np.zeros(shape), np.ones(shape)
Filled(shape, x) == [a \in 1..shape[1] |-> [b \in 1..shape[2] |-> x]]

\* x[1:-1, 1:-1]
Interior(a) == [x \in 1..(Rows(a) - 2) |-> [y \in 1..(Cols(a) - 2) |-> a[x + 1][y + 1]]]

\* x[c:x.shape[0]-c, c:x.shape[1]-c]; an array with no cell left is written <<>>.
Crop(a, c) ==
    IF Rows(a) - 2 * c <= 0 \/ Cols(a) - 2 * c <= 0 THEN <<>>
    ELSE [x \in 1..(Rows(a) - 2 * c) |-> [y \in 1..(Cols(a) - 2 * c) |-> a[x + c][y + c]]]
\* n * x
Scaled(a, n) == [x \in 1..Rows(a) |-> [y \in 1..Cols(a) |-> n * a[x][y]]]

RECURSIVE SumSeq(_, _)
SumSeq(s, i) == IF i > Len(s) THEN 0 ELSE s[i] + SumSeq(s, i + 1)
ArraySum(a) == SumSeq([x \in 1..Rows(a) |-> SumSeq(a[x], 1)], 1)

\* result = func(*args): the callables the commander hands out.
\*   "unpadded": lambda i, j: (100 * i + j)[1:-1, 1:-1]   (a result without halo)
\*   "add_one":  lambda x: x + 1
\*   "sum":      np.sum
\*   "add":      operator.add, of an array and a number
\*   "crop":     lambda x, c: x[c:x.shape[0]-c, c:x.shape[1]-c]
\*   "double_triple": lambda x: (2 * x, 3 * x)
\*   "split":    lambda x: (x[1:-1, 1:-1], x)
Call(f, args) ==
    CASE f = "unpadded" /\ Len(args) = 2 /\ args[1].t = "ndarray" /\ args[2].t = "ndarray"
             /\ Shape(args[1].a) = Shape(args[2].a) ->
             NdArray(Interior([x \in 1..Rows(args[1].a) |-> [y \in 1..Cols(args[1].a) |->
                                   100 * args[1].a[x][y] + args[2].a[x][y]]]))
      [] f = "add_one" /\ Len(args) = 1 /\ args[1].t = "ndarray" ->
             NdArray([x \in 1..Rows(args[1].a) |-> [y \in 1..Cols(args[1].a) |->
                                   args[1].a[x][y] + 1]])
      [] f = "sum" /\ Len(args) = 1 /\ args[1].t = "ndarray" ->
             PyInt(ArraySum(args[1].a))
      [] f = "add" /\ Len(args) = 2 /\ args[1].t = "ndarray" /\ args[2].t = "int" ->
             NdArray([x \in 1..Rows(args[1].a) |-> [y \in 1..Cols(args[1].a) |->
                                   args[1].a[x][y] + args[2].v]])
      [] f = "crop" /\ Len(args) = 2 /\ args[1].t = "ndarray" /\ args[2].t = "int" ->
             NdArray(Crop(args[1].a, args[2].v))
      [] f = "double_triple" /\ Len(args) = 1 /\ args[1].t = "ndarray" ->
             PyTuple(<<NdArray(Scaled(args[1].a, 2)), NdArray(Scaled(args[1].a, 3))>>)
      [] f = "split" /\ Len(args) = 1 /\ args[1].t = "ndarray" ->
             PyTuple(<<NdArray(Interior(args[1].a)), args[1]>>)
      [] OTHER -> Raised

(***************************************************************************)
(* MPI_Worker                                                              *)
(***************************************************************************)
\* MPI_Worker.__init__
MPI_Worker(i, j, neighbor_ranks) ==
    [neighbor_ranks |-> neighbor_ranks,
     i |-> i,
     j |-> j,
     variables |-> ("i" :> NdArray(i)) @@ ("j" :> NdArray(j))
                       @@ ("_z" :> NdArray(Filled(Shape(i), 0))),
     custom_funcs |-> [name \in {} |-> "sum"]]

\* A slip _substitute_args could make: look every handle up under the key "i".
lookup_variable_i(w, arg) == w.variables["i"]

\* self.variables[arg.key]
lookup_variable(w, arg) == w.variables[arg.key]

\* MPI_Worker._substitute_args; ok is FALSE on a KeyError.
substitute_args(w, args) ==
    [ok |-> \A m \in 1..Len(args) :
                is_worker_variable(args[m]) => args[m].key \in DOMAIN w.variables,
     args |-> [m \in 1..Len(args) |->
                IF is_worker_variable(args[m]) /\ args[m].key \in DOMAIN w.variables
                THEN lookup_variable(w, args[m]) ELSE args[m]]]

\* MPI_Worker._substitute_kwargs: with no keyword the loop body never runs; with
\* one, its first statement reads the undefined name arg and raises NameError.
substitute_kwargs(w, kwargs) == [ok |-> Len(kwargs) = 0, kwargs |-> kwargs]

\* A slip the recursion could make: pair the results with the handles from the
\* far end.
zip_pairs_reversed(result, result_var) ==
    [m \in 1..Len(result_var) |-> [res |-> result[Len(result) + 1 - m], var |-> result_var[m]]]
\* zip(result, result_var)
zip_pairs(result, result_var) ==
    [m \in 1..Len(result_var) |-> [res |-> result[m], var |-> result_var[m]]]

\* A slip _update_result could make: take every array as already haloed.
is_haloed_shape_any(shape, tile) == TRUE
\* not (result.shape[:2] != (ni + 2, nj + 2))
is_haloed_shape(shape, tile) == shape = <<tile[1] + 2, tile[2] + 2>>

\* MPI_Worker._update_result: what is to be done with the result. For a tuple
\* of result_var the pairs of zip(result, result_var) are to be worked off in
\* their order, each by the rule for None or one handle.
update_result(w, result, result_var) ==
    IF result_var.t = "tuple"
    THEN IF result.t = "tuple" /\ Len(result.v) = Len(result_var.v)
         THEN [kind |-> "tuple", pairs |-> zip_pairs(result.v, result_var.v)]
         ELSE [kind |-> "fail"]
    ELSE IF result_var = PyNone THEN [kind |-> "return", val |-> result]
    ELSE IF ~is_worker_variable(result_var) \/ result.t # "ndarray" THEN [kind |-> "fail"]
    ELSE LET tile == <<Rows(w.i) - 2, Cols(w.i) - 2>>
         IN  IF is_haloed_shape(Shape(result.a), tile)
             THEN [kind |-> "store", key |-> result_var.key, val |-> result]
             ELSE IF Shape(result.a) = tile /\ tile[1] > 0 /\ tile[2] > 0
             THEN [kind |-> "halo", key |-> result_var.key, result |-> result.a]
             ELSE [kind |-> "fail"]

\* MPI_Worker.func
worker_func(w, a) ==
    LET known == a.func.t # "str" \/ a.func.v \in DOMAIN w.custom_funcs
        f == IF a.func.t = "str" THEN w.custom_funcs[a.func.v] ELSE a.func.v
        sa == substitute_args(w, a.args)
        sk == substitute_kwargs(w, a.kwargs)
    IN  IF ~known \/ ~sa.ok \/ ~sk.ok THEN [kind |-> "fail"]
        ELSE LET result == Call(f, sa.args)
             IN  IF result = Raised THEN [kind |-> "fail"]
                 ELSE update_result(w, result, a.result_var)

\* MPI_Worker.method: the bound methods of an ndarray the model knows are sum and copy.
worker_method(w, a) ==
    IF ~is_worker_variable(a.variable) \/ a.variable.key \notin DOMAIN w.variables
    THEN [kind |-> "fail"]
    ELSE LET variable == w.variables[a.variable.key]
             sa == substitute_args(w, a.args)
             sk == substitute_kwargs(w, a.kwargs)
         IN  IF a.method_name \notin {"sum", "copy"} \/ ~sa.ok \/ ~sk.ok THEN [kind |-> "fail"]
             ELSE LET result == IF a.method_name = "sum"
                                THEN Call("sum", <<variable>> \o sa.args)
                                ELSE IF Len(sa.args) = 0 THEN variable ELSE Raised
                  IN  IF result = Raised THEN [kind |-> "fail"]
                      ELSE update_result(w, result, a.result_var)

\* getattr(worker, method_name)(*args): the outcome of one task on worker w.
\* set_custom_func registers and returns None.
task_outcome(w, task) ==
    CASE task.method_name = "func" -> worker_func(w, task.args)
      [] task.method_name = "method" -> worker_method(w, task.args)
      [] task.method_name = "set_custom_func" ->
             [kind |-> "register", name |-> task.args.name, func |-> task.args.func]
      [] OTHER -> [kind |-> "fail"]

(***************************************************************************)
(* The fabric: the intercommunicator between the commander and its workers *)
(* and MPI.COMM_WORLD among the workers. Messages between one pair of      *)
(* processes on one communicator are matched in the order they were sent   *)
(* (no call passes a tag); a send, a broadcast or a scatter at the root    *)
(* and a gather contribution at a worker complete without waiting for the  *)
(* peer, a receive waits for its message.                                  *)
(***************************************************************************)
Ranks == 0..(niProc * njProc - 1)

\* rank = i * njProc + j
RankOf(i, j, nProcJ) == i * nProcJ + j

\* neighbor_ranks = (rank_x_m, rank_x_p, rank_y_m, rank_y_p)
NeighborRanks(i, j, nProcI, nProcJ) ==
    << ((i + nProcI - 1) % nProcI) * nProcJ + j,
       ((i + 1) % nProcI) * nProcJ + j,
       i * nProcJ + ((j + nProcJ - 1) % nProcJ),
       i * nProcJ + ((j + 1) % nProcJ) >>

\* The first message MPI_Commander.__init__ sends to rank r: the one of the
\* pass of its double loop in which rank = r.
FirstMessage(r, iR, jR) ==
    LET ij == CHOOSE ij \in (0..(Len(iR) - 1)) \X (0..(Len(jR) - 1)) :
                  RankOf(ij[1], ij[2], Len(jR)) = r
    IN  [m |-> "first", iRange |-> iR[ij[1] + 1], jRange |-> jR[ij[2] + 1],
         neighbor_ranks |-> NeighborRanks(ij[1], ij[2], Len(iR), Len(jR))]

\* The worker before mpi_worker_main built its MPI_Worker.
NoWorker == [t |-> "None"]
NoPending == [t |-> "None"]
NoSubst == [handles |-> <<>>, vals |-> <<>>, expect |-> <<>>]
EmptyMap == [k \in {} |-> NoPending]

\* The values a caller passes as return_result.
Flags == {"True", "False", "None"}
\* if return_result:   (MPI_Commander.func, func_nonuniform_args, method)
commander_gathers(return_result) == return_result = "True"
\* if return_result is not None:   (mpi_worker_main)
worker_gathers(return_result) == return_result # "None"

\* A slip __del__ could make: broadcast without looking at self.comm.
del_broadcasts_always(c) == TRUE
\* if self.comm is not None:   (MPI_Commander.__del__)
del_broadcasts(c) == c # "None"

\* A slip the scatter could make: hand rank r the descriptor of the next rank.
scatter_piece_shifted(data, r) == data[((r + 1) % Len(data)) + 1]
\* comm.scatter(messages, root=MPI.ROOT) / command_comm.scatter(None): rank r
\* receives messages[r].
scatter_piece(data, r) == data[r + 1]

\* MPI.COMM_WORLD.Isend(buf, dest) from rank src
Isend(wd, src, dst, buf) == [wd EXCEPT ![<<src, dst>>] = Append(@, buf)]

Col(a, b) == [x \in 1..Rows(a) |-> a[x][b]]

\* The four Isend of _update_result_neighbor, in their order.
halo_sends(wd, r, nb, result) ==
    LET w1 == Isend(wd, r, nb[1], result[1])
        w2 == Isend(w1, r, nb[2], result[Rows(result)])
        w3 == Isend(w2, r, nb[3], Col(result, 1))
    IN  Isend(w3, r, nb[4], Col(result, Cols(result)))

\* full_result = np.ones((ni + 2, nj + 2)); full_result[1:-1,1:-1] = result
padded(result) ==
    [a \in 1..(Rows(result) + 2) |-> [b \in 1..(Cols(result) + 2) |->
        IF a \in 2..(Rows(result) + 1) /\ b \in 2..(Cols(result) + 1)
        THEN result[a - 1][b - 1] ELSE 1]]

\* The buffer of the k-th Recv of _update_result_neighbor, as the cells of
\* full_result in buffer order: full_result[0,1:-1], full_result[-1,1:-1],
\* full_result[1:-1,0], full_result[1:-1,-1].
recv_buffer(full, k) ==
    CASE k = 1 -> [n \in 1..(Cols(full) - 2) |-> <<1, n + 1>>]
      [] k = 2 -> [n \in 1..(Cols(full) - 2) |-> <<Rows(full), n + 1>>]
      [] k = 3 -> [n \in 1..(Rows(full) - 2) |-> <<n + 1, 1>>]
      [] k = 4 -> [n \in 1..(Rows(full) - 2) |-> <<n + 1, Cols(full)>>]

\* MPI.COMM_WORLD.Recv(buffer, source) of a message no longer than the buffer.
recv_into(full, k, msg) ==
    LET buf == recv_buffer(full, k)
    IN  [a \in 1..Rows(full) |-> [b \in 1..Cols(full) |->
            IF \E n \in 1..Len(msg) : buf[n] = <<a, b>>
            THEN msg[CHOOSE n \in 1..Len(msg) : buf[n] = <<a, b>>]
            ELSE full[a][b]]]

\* What the history keeps of the substitution of a task's arguments on worker r.
SubstOf(r, task) ==
    IF task.method_name \in {"func", "method"}
    THEN [handles |-> task.args.args,
          vals |-> substitute_args(worker[r], task.args.args).args,
          expect |-> [m \in 1..Len(task.args.args) |->
                        IF is_worker_variable(task.args.args[m])
                           /\ task.args.args[m].key \in DOMAIN stored[r]
                        THEN stored[r][task.args.args[m].key]
                        ELSE task.args.args[m]]]
    ELSE NoSubst

(***************************************************************************)
(* MPI_Commander.__init__: the state once the constructor returned.        *)
(***************************************************************************)
Init ==
    /\ \E nI \in 1..MaxWorkers, nJ \in 1..MaxWorkers :
          /\ nI * nJ <= MaxWorkers
          /\ niProc = nI /\ njProc = nJ
          /\ ni = TileRows * nI /\ nj = TileRows * nJ - 1
          /\ iRanges = i_ranges(TileRows * nI, nI)
          /\ jRanges = i_ranges(TileRows * nJ - 1, nJ)
          /\ down = [r \in 0..(nI * nJ - 1) |->
                       <<FirstMessage(r, i_ranges(TileRows * nI, nI),
                                         i_ranges(TileRows * nJ - 1, nJ))>>]
          /\ up = [r \in 0..(nI * nJ - 1) |-> <<>>]
          /\ world = [c \in (0..(nI * nJ - 1)) \X (0..(nI * nJ - 1)) |-> <<>>]
          /\ wpc = [r \in 0..(nI * nJ - 1) |-> "start"]
          /\ worker = [r \in 0..(nI * nJ - 1) |-> NoWorker]
          /\ pending = [r \in 0..(nI * nJ - 1) |-> NoPending]
          /\ wlog = [r \in 0..(nI * nJ - 1) |-> <<>>]
          /\ stored = [r \in 0..(nI * nJ - 1) |-> EmptyMap]
          /\ halos = [r \in 0..(nI * nJ - 1) |-> EmptyMap]
          /\ first_received = [r \in 0..(nI * nJ - 1) |-> NoPending]
    /\ rpc = "done"
    /\ DagIdle
    /\ comm = "spawned" /\ cpc = "ready" /\ calls = 0
    /\ issued = <<>> /\ gather_log = <<>>
    /\ finalize_bcasts = 0 /\ del_calls = 0

(***************************************************************************)
(* mpi_worker_main                                                         *)
(***************************************************************************)
\* first_message = command_comm.recv(); ...; worker = MPI_Worker(i, j, neighbor_ranks)
WorkerStart(r) ==
    /\ wpc[r] = "start"
    /\ down[r] # <<>>
    /\ LET first_message == Head(down[r])
           i0 == first_message.iRange[1]
           i1 == first_message.iRange[2]
           j0 == first_message.jRange[1]
           j1 == first_message.jRange[2]
           w == MPI_Worker(OuterI(i0, i1, j0, j1), OuterJ(i0, i1, j0, j1),
                           first_message.neighbor_ranks)
       IN  /\ worker' = [worker EXCEPT ![r] = w]
           /\ stored' = [stored EXCEPT ![r] = w.variables]
           /\ first_received' = [first_received EXCEPT ![r] = first_message]
    /\ down' = [down EXCEPT ![r] = Tail(@)]
    /\ wpc' = [wpc EXCEPT ![r] = "bcast"]
    /\ UNCHANGED <<rangeVars, dagVars, comm, cpc, up, world, pending, calls, issued,
                   wlog, gather_log, halos, finalize_bcasts, del_calls>>

\* The task ended with return_val: gather it unless return_result is None,
\* then back to the head of the loop.
EndTask(r, task, via, subst, w2, st2, return_val) ==
    /\ worker' = [worker EXCEPT ![r] = w2]
    /\ stored' = [stored EXCEPT ![r] = st2]
    /\ wpc' = [wpc EXCEPT ![r] = "bcast"]
    /\ up' = IF worker_gathers(task.return_result)
             THEN [up EXCEPT ![r] = Append(@, return_val)] ELSE up
    /\ wlog' = [wlog EXCEPT ![r] = Append(@,
                   [task |-> task, via |-> via, subst |-> subst, failed |-> FALSE,
                    gathered |-> worker_gathers(task.return_result),
                    return_val |-> return_val])]
    /\ pending' = [pending EXCEPT ![r] = NoPending]

\* The task raised: the worker process ends with the exception.
FailTask(r, task, via, subst) ==
    /\ wpc' = [wpc EXCEPT ![r] = "failed"]
    /\ wlog' = [wlog EXCEPT ![r] = Append(@,
                   [task |-> task, via |-> via, subst |-> subst, failed |-> TRUE,
                    gathered |-> FALSE, return_val |-> Raised])]
    /\ pending' = [pending EXCEPT ![r] = NoPending]
    /\ UNCHANGED <<worker, stored, up>>

\* The task raised after the stores that led to w2 and st2.
AbortTask(r, task, via, subst, w2, st2) ==
    /\ worker' = [worker EXCEPT ![r] = w2]
    /\ stored' = [stored EXCEPT ![r] = st2]
    /\ wpc' = [wpc EXCEPT ![r] = "failed"]
    /\ wlog' = [wlog EXCEPT ![r] = Append(@,
                   [task |-> task, via |-> via, subst |-> subst, failed |-> TRUE,
                    gathered |-> FALSE, return_val |-> Raised])]
    /\ pending' = [pending EXCEPT ![r] = NoPending]
    /\ up' = up

\* for res, var in zip(result, result_var): self._update_result(res, var)
\* worked off up to the end, to the first element that fails, or to the first
\* that waits in a Recv; w, st and wd are the worker, its history of stores and
\* MPI.COMM_WORLD as the elements before left them.
RECURSIVE update_pairs(_, _, _, _, _)
update_pairs(w, st, wd, r, pairs) ==
    IF pairs = <<>> THEN [status |-> "done", w |-> w, st |-> st, wd |-> wd]
    ELSE LET o == update_result(w, Head(pairs).res, Head(pairs).var)
         IN  CASE o.kind = "return" -> update_pairs(w, st, wd, r, Tail(pairs))
               [] o.kind = "store" ->
                    update_pairs([w EXCEPT !.variables = (o.key :> o.val) @@ @],
                                 (o.key :> o.val) @@ st, wd, r, Tail(pairs))
               [] o.kind = "halo" ->
                    [status |-> "halo", w |-> w, st |-> st,
                     wd |-> halo_sends(wd, r, w.neighbor_ranks, o.result),
                     key |-> o.key, result |-> o.result, rest |-> Tail(pairs)]
               [] OTHER -> [status |-> "fail", w |-> w, st |-> st, wd |-> wd]

\* The worker's step once the pairs of a tuple result were worked off as far
\* as u says; hl is the history of halo exchanges before it.
ContinuePairs(r, task, via, subst, u, hl) ==
    CASE u.status = "done" ->
           EndTask(r, task, via, subst, u.w, u.st, PyNone)
           /\ world' = u.wd /\ halos' = hl
      [] u.status = "fail" ->
           AbortTask(r, task, via, subst, u.w, u.st)
           /\ world' = u.wd /\ halos' = hl
      [] u.status = "halo" ->
           /\ worker' = [worker EXCEPT ![r] = u.w]
           /\ stored' = [stored EXCEPT ![r] = u.st]
           /\ world' = u.wd
           /\ pending' = [pending EXCEPT ![r] =
                            [task |-> task, via |-> via, subst |-> subst,
                             key |-> u.key, full_result |-> padded(u.result),
                             next |-> 1, rest |-> u.rest]]
           /\ halos' = [hl EXCEPT ![r] =
                          ((Len(wlog[r]) + 1) :> [result |-> u.result, done |-> FALSE,
                                                  full_result |-> <<>>]) @@ @]
           /\ wpc' = [wpc EXCEPT ![r] = "recv"]
           /\ UNCHANGED <<up, wlog>>

\* return_val = worker_method(*args), up to its first Recv if it has one.
RunTask(r, task, via) ==
    \E o \in {task_outcome(worker[r], task)}, subst \in {SubstOf(r, task)} :
    LET w == worker[r]
        k == Len(wlog[r]) + 1
    IN  CASE o.kind = "fail" ->
               FailTask(r, task, via, subst) /\ UNCHANGED <<world, halos>>
          [] o.kind = "return" ->
               EndTask(r, task, via, subst, w, stored[r], o.val)
               /\ UNCHANGED <<world, halos>>
          [] o.kind = "register" ->
               EndTask(r, task, via, subst,
                       [w EXCEPT !.custom_funcs = (o.name :> o.func) @@ @],
                       stored[r], PyNone)
               /\ UNCHANGED <<world, halos>>
          [] o.kind = "store" ->
               EndTask(r, task, via, subst,
                       [w EXCEPT !.variables = (o.key :> o.val) @@ @],
                       (o.key :> o.val) @@ stored[r], PyNone)
               /\ UNCHANGED <<world, halos>>
          [] o.kind = "halo" ->
               /\ world' = halo_sends(world, r, w.neighbor_ranks, o.result)
               /\ pending' = [pending EXCEPT ![r] =
                                [task |-> task, via |-> via, subst |-> subst,
                                 key |-> o.key, full_result |-> padded(o.result),
                                 next |-> 1, rest |-> <<>>]]
               /\ halos' = [halos EXCEPT ![r] =
                              (k :> [result |-> o.result, done |-> FALSE,
                                     full_result |-> <<>>]) @@ @]
               /\ wpc' = [wpc EXCEPT ![r] = "recv"]
               /\ UNCHANGED <<worker, stored, up, wlog>>
          [] o.kind = "tuple" ->
               \E u \in {update_pairs(w, stored[r], world, r, o.pairs)} :
                   ContinuePairs(r, task, via, subst, u, halos)

\* A slip the loop could make: break on either sentinel.
is_any_sentinel(next_task_list) == next_task_list.m \in {"finalize", "scatter"}
\* if next_task_list == 'finalize':
is_finalize(next_task_list) == next_task_list.m = "finalize"

\* next_task_list = command_comm.bcast(None, 0) and what follows it
WorkerBcast(r) ==
    /\ wpc[r] = "bcast"
    /\ down[r] # <<>>
    /\ down' = [down EXCEPT ![r] = Tail(@)]
    /\ LET next_task_list == Head(down[r])
       IN  CASE is_finalize(next_task_list) ->
                  /\ wpc' = [wpc EXCEPT ![r] = "done"]
                  /\ UNCHANGED <<worker, stored, up, wlog, pending, world, halos>>
             [] next_task_list.m = "scatter" ->
                  /\ wpc' = [wpc EXCEPT ![r] = "scatter"]
                  /\ UNCHANGED <<worker, stored, up, wlog, pending, world, halos>>
             [] OTHER -> RunTask(r, next_task_list.task, "bcast")
    /\ UNCHANGED <<rangeVars, dagVars, comm, cpc, calls, issued, gather_log,
                   first_received, finalize_bcasts, del_calls>>

\* next_task_list = command_comm.scatter(None) and what follows it
WorkerScatter(r) ==
    /\ wpc[r] = "scatter"
    /\ down[r] # <<>>
    /\ down' = [down EXCEPT ![r] = Tail(@)]
    /\ RunTask(r, Head(down[r]).task, "scatter")
    /\ UNCHANGED <<rangeVars, dagVars, comm, cpc, calls, issued, gather_log,
                   first_received, finalize_bcasts, del_calls>>

\* One MPI.COMM_WORLD.Recv of _update_result_neighbor; after the fourth,
\* self.variables[result_var.key] = result and the task ends returning None.
WorkerRecv(r) ==
    /\ wpc[r] = "recv"
    /\ LET p == pending[r]
           src == worker[r].neighbor_ranks[p.next]
           k == Len(wlog[r]) + 1
       IN  /\ world[<<src, r>>] # <<>>
           /\ LET msg == Head(world[<<src, r>>])
                  received == [world EXCEPT ![<<src, r>>] = Tail(@)]
                  full == recv_into(p.full_result, p.next, msg)
                  w2 == [worker[r] EXCEPT !.variables = (p.key :> NdArray(full)) @@ @]
                  st2 == (p.key :> NdArray(full)) @@ stored[r]
                  hl == [halos EXCEPT ![r] =
                           [@ EXCEPT ![k] = [@ EXCEPT !.done = TRUE,
                                                !.full_result = full]]]
              IN  IF Len(msg) > Len(recv_buffer(p.full_result, p.next))
                  THEN /\ FailTask(r, p.task, p.via, p.subst)
                       /\ world' = received
                       /\ UNCHANGED halos
                  ELSE IF p.next < 4
                  THEN /\ pending' = [pending EXCEPT ![r] =
                                        [p EXCEPT !.full_result = full, !.next = @ + 1]]
                       /\ world' = received
                       /\ UNCHANGED <<worker, stored, up, wlog, wpc, halos>>
                  ELSE IF p.rest = <<>>
                  THEN /\ EndTask(r, p.task, p.via, p.subst, w2, st2, PyNone)
                       /\ world' = received
                       /\ halos' = hl
                  ELSE \E u \in {update_pairs(w2, st2, received, r, p.rest)} :
                           ContinuePairs(r, p.task, p.via, p.subst, u, hl)
    /\ UNCHANGED <<rangeVars, dagVars, comm, cpc, down, calls, issued, gather_log,
                   first_received, finalize_bcasts, del_calls>>

(***************************************************************************)
(* MPI_Commander                                                           *)
(***************************************************************************)
\* self.comm.bcast(message, MPI.ROOT)
broadcast_to_workers(dn, message) == [r \in DOMAIN dn |-> Append(dn[r], message)]

\* self.comm.bcast('scatter', MPI.ROOT); self.comm.scatter(messages, root=MPI.ROOT)
scatter_to_workers(dn, messages) ==
    [r \in DOMAIN dn |->
        dn[r] \o <<[m |-> "scatter"], [m |-> "piece", task |-> scatter_piece(messages, r)]>>]

CommanderFrame ==
    UNCHANGED <<rangeVars, dagVars, comm, up, world, wpc, worker, pending, wlog,
                gather_log, stored, halos, first_received, finalize_bcasts, del_calls>>

V0 == WorkerVariable("v0")

\* The calls of func the model issues.
FuncCalls ==
    { [func |-> PyFunction("unpadded"), args |-> <<I, J>>, kwargs |-> <<>>, result_var |-> V0],
      [func |-> PyStr("add_one"), args |-> <<I>>, kwargs |-> <<>>, result_var |-> V0],
      [func |-> PyFunction("sum"), args |-> <<V0>>, kwargs |-> <<>>, result_var |-> PyNone],
      [func |-> PyFunction("sum"), args |-> <<J>>, kwargs |-> <<>>, result_var |-> PyNone] }

\* The calls of method the model issues.
MethodCalls ==
    { [variable |-> V0, method_name |-> "sum", args |-> <<>>, kwargs |-> <<>>,
       result_var |-> PyNone],
      [variable |-> J, method_name |-> "copy", args |-> <<>>, kwargs |-> <<>>,
       result_var |-> V0] }

\* The calls of func_nonuniform_args the model issues: operator.add of the
\* zero tile and a number of its own for each of n argument tuples.
NonuniformCalls(n) ==
    { [func |-> PyFunction("add"),
       nonuniform_args |-> [x \in 1..n |-> <<ZERO, PyInt(x)>>],
       kwargs |-> <<>>, result_var |-> rv] : rv \in {V0, PyNone} }

\* MPI_Commander.set_custom_func, up to its gather
CmdSetCustomFunc(name, f) ==
    /\ comm = "spawned" /\ cpc = "ready" /\ calls < MaxTasks
    /\ calls' = calls + 1
    /\ down' = broadcast_to_workers(down,
                  [m |-> "task", task |-> [method_name |-> "set_custom_func",
                                           args |-> [name |-> name, func |-> f],
                                           return_result |-> "False"]])
    /\ issued' = Append(issued, [method |-> "set_custom_func",
                                 call |-> [name |-> name, func |-> f],
                                 return_result |-> "False", gathers |-> TRUE])
    /\ cpc' = "gather"
    /\ CommanderFrame

\* MPI_Commander.func, up to its gather if it has one
CmdFunc(c, return_result) ==
    /\ comm = "spawned" /\ cpc = "ready" /\ calls < MaxTasks
    /\ calls' = calls + 1
    /\ down' = broadcast_to_workers(down,
                  [m |-> "task", task |-> [method_name |-> "func", args |-> c,
                                           return_result |-> return_result]])
    /\ issued' = Append(issued, [method |-> "func", call |-> c,
                                 return_result |-> return_result,
                                 gathers |-> commander_gathers(return_result)])
    /\ cpc' = IF commander_gathers(return_result) THEN "gather" ELSE "ready"
    /\ CommanderFrame

\* MPI_Commander.func_nonuniform_args, up to its gather if it has one; the
\* assertion on the length ends the call before anything is sent.
CmdFuncNonuniform(c, return_result) ==
    /\ comm = "spawned" /\ cpc = "ready" /\ calls < MaxTasks
    /\ calls' = calls + 1
    /\ IF Len(c.nonuniform_args) # Len(iRanges) * Len(jRanges)
       THEN UNCHANGED <<down, issued, cpc>>
       ELSE /\ down' = scatter_to_workers(down,
                          [n \in 1..Len(c.nonuniform_args) |->
                              [method_name |-> "func",
                               args |-> [func |-> c.func, args |-> c.nonuniform_args[n],
                                         kwargs |-> c.kwargs, result_var |-> c.result_var],
                               return_result |-> return_result]])
            /\ issued' = Append(issued, [method |-> "func_nonuniform_args", call |-> c,
                                         return_result |-> return_result,
                                         gathers |-> commander_gathers(return_result)])
            /\ cpc' = IF commander_gathers(return_result) THEN "gather" ELSE "ready"
    /\ CommanderFrame

\* MPI_Commander.method, up to its gather if it has one
CmdMethod(c, return_result) ==
    /\ comm = "spawned" /\ cpc = "ready" /\ calls < MaxTasks
    /\ calls' = calls + 1
    /\ down' = broadcast_to_workers(down,
                  [m |-> "task", task |-> [method_name |-> "method", args |-> c,
                                           return_result |-> return_result]])
    /\ issued' = Append(issued, [method |-> "method", call |-> c,
                                 return_result |-> return_result,
                                 gathers |-> commander_gathers(return_result)])
    /\ cpc' = IF commander_gathers(return_result) THEN "gather" ELSE "ready"
    /\ CommanderFrame

\* MPI_Commander._gather_from_workers: returns once every worker contributed
CmdGather ==
    /\ cpc = "gather"
    /\ \A r \in Ranks : up[r] # <<>>
    /\ gather_log' = Append(gather_log,
                        [task |-> Len(issued),
                         list |-> [n \in 1..(niProc * njProc) |-> Head(up[n - 1])]])
    /\ up' = [r \in Ranks |-> Tail(up[r])]
    /\ cpc' = "ready"
    /\ UNCHANGED <<rangeVars, dagVars, comm, down, world, wpc, worker, pending, calls,
                   issued, wlog, stored, halos, first_received, finalize_bcasts, del_calls>>

\* MPI_Commander.__del__
CmdDel ==
    /\ cpc = "ready" /\ del_calls < MaxDel
    /\ del_calls' = del_calls + 1
    /\ IF del_broadcasts(comm)
       THEN /\ down' = broadcast_to_workers(down, [m |-> "finalize"])
            /\ comm' = "None"
            /\ finalize_bcasts' = finalize_bcasts + 1
       ELSE UNCHANGED <<down, comm, finalize_bcasts>>
    /\ UNCHANGED <<rangeVars, dagVars, cpc, up, world, wpc, worker, pending, calls,
                   issued, wlog, gather_log, stored, halos, first_received>>

Next ==
    \/ \E r \in Ranks : WorkerStart(r)
    \/ \E r \in Ranks : WorkerBcast(r)
    \/ \E r \in Ranks : WorkerScatter(r)
    \/ \E r \in Ranks : WorkerRecv(r)
    \/ CmdSetCustomFunc("add_one", "add_one")
    \/ \E c \in FuncCalls, f \in Flags : CmdFunc(c, f)
    \/ \E n \in {niProc * njProc, niProc * njProc + 1} :
          \E c \in NonuniformCalls(n), f \in Flags : CmdFuncNonuniform(c, f)
    \/ \E c \in MethodCalls, f \in Flags : CmdMethod(c, f)
    \/ CmdGather
    \/ CmdDel

Spec == Init /\ [][Next]_vars

(***************************************************************************)
(* Properties of the fabric                                                *)
(***************************************************************************)
Started(r) == wpc[r] # "start"

\* The border strips of a padded array, without its corners.
FirstRowStrip(full) == [b \in 1..(Cols(full) - 2) |-> full[1][b + 1]]
LastRowStrip(full) == [b \in 1..(Cols(full) - 2) |-> full[Rows(full)][b + 1]]
FirstColStrip(full) == [a \in 1..(Rows(full) - 2) |-> full[a + 1][1]]
LastColStrip(full) == [a \in 1..(Rows(full) - 2) |-> full[a + 1][Cols(full)]]

\* C1: Halo correctness. Once a worker ended the halo exchange of a task, the
\* padded array it stored has its own result as interior, the last row of its
\* x- neighbour's result as first row strip, the first row of its x+
\* neighbour's result as last row strip, the last column of its y- neighbour's
\* result as first column strip and the first column of its y+ neighbour's
\* result as last column strip - on every process grid.
C1_HaloCorrectness ==
    \A r \in Ranks : Started(r) =>
        \A k \in DOMAIN halos[r] :
            (halos[r][k].done
             /\ \A n \in 1..4 : k \in DOMAIN halos[worker[r].neighbor_ranks[n]]) =>
                LET full == halos[r][k].full_result
                    nb == worker[r].neighbor_ranks
                    x_m == halos[nb[1]][k].result
                    x_p == halos[nb[2]][k].result
                    y_m == halos[nb[3]][k].result
                    y_p == halos[nb[4]][k].result
                IN  /\ Interior(full) = halos[r][k].result
                    /\ FirstRowStrip(full) = x_m[Rows(x_m)]
                    /\ LastRowStrip(full) = x_p[1]
                    /\ FirstColStrip(full) = Col(y_m, Cols(y_m))
                    /\ LastColStrip(full) = Col(y_p, 1)

\* C2: Collective matching. For every task and every value of the return
\* flag, a worker that ran the task entered a gather for it if and only if
\* the commander entered a gather for it.
C2_CollectiveMatching ==
    \A r \in Ranks : \A k \in 1..Len(wlog[r]) :
        ~wlog[r][k].failed => (wlog[r][k].gathered <=> issued[k].gathers)

Keys == {"i", "j", "_z", "v0"}

VariableChanged(r, key) ==
    /\ Started(r)
    /\ key \in DOMAIN worker'[r].variables
    /\ \/ key \notin DOMAIN worker[r].variables
       \/ worker'[r].variables[key] # worker[r].variables[key]

TaskStoredTo(r, key) ==
    /\ Len(wlog'[r]) = Len(wlog[r]) + 1
    /\ LET e == wlog'[r][Len(wlog'[r])]
       IN  /\ e.task.method_name \in {"func", "method"}
           /\ e.task.args.result_var = WorkerVariable(key)

C7_FinalizeOnce ==
    /\ [](finalize_bcasts <= 1)
    /\ [][(del_calls' = del_calls + 1 /\ comm = "None") =>
             (down' = down /\ finalize_bcasts' = finalize_bcasts /\ comm' = "None")]_vars

\* __del__ ran a second time, after the one that broadcast "finalize".
C7_Witness == del_calls = 2 /\ finalize_bcasts = 1 /\ comm = "None"

\* The descriptor func_nonuniform_args builds for rank r from call c.
DescriptorOf(c, return_result, r) ==
    [method_name |-> "func",
     args |-> [func |-> c.func, args |-> c.nonuniform_args[r + 1],
               kwargs |-> c.kwargs, result_var |-> c.result_var],
     return_result |-> return_result]

\* C8: Scatter delivery. Every call of func_nonuniform_args that sent anything
\* had exactly NI*NJ argument tuples; every scattered descriptor follows the
\* broadcast sentinel "scatter"; and the task a worker of rank r ran for such a
\* call is exactly the descriptor of rank r.
C8_ScatterDelivery ==
    /\ \A k \in 1..Len(issued) :
          issued[k].method = "func_nonuniform_args" =>
              Len(issued[k].call.nonuniform_args) = niProc * njProc
    /\ \A r \in Ranks : \A n \in 1..Len(down[r]) :
          down[r][n].m = "piece" =>
              IF n = 1 THEN wpc[r] = "scatter" ELSE down[r][n - 1].m = "scatter"
    /\ \A r \in Ranks : \A k \in 1..Len(wlog[r]) :
          /\ wlog[r][k].via = "scatter" <=> issued[k].method = "func_nonuniform_args"
          /\ wlog[r][k].via = "scatter" =>
                wlog[r][k].task = DescriptorOf(issued[k].call, issued[k].return_result, r)

\* A call with one argument tuple too many was turned away, and a later call
\* made two workers run descriptors that differ.
C8_Witness ==
    /\ calls > Len(issued)
    /\ \E r1, r2 \in Ranks :
          /\ Len(wlog[r1]) > 0 /\ Len(wlog[r2]) > 0
          /\ wlog[r1][1].via = "scatter" /\ wlog[r2][1].via = "scatter"
          /\ wlog[r1][1].task # wlog[r2][1].task
          /\ ~wlog[r1][1].failed /\ ~wlog[r2][1].failed

\* The first message and the seeds of the worker of rank p * NJ + q.
RankToTile ==
    \A p \in 0..(niProc - 1) : \A q \in 0..(njProc - 1) :
        LET r == p * njProc + q
        IN  Started(r) =>
              /\ first_received[r].iRange = iRanges[p + 1]
              /\ first_received[r].jRange = jRanges[q + 1]
              /\ LET i0 == iRanges[p + 1][1]
                     j0 == jRanges[q + 1][1]
                     shape == <<iRanges[p + 1][2] - i0 + 2, jRanges[q + 1][2] - j0 + 2>>
                     iSeed == [a \in 1..shape[1] |-> [b \in 1..shape[2] |-> i0 - 1 + (a - 1)]]
                     jSeed == [a \in 1..shape[1] |-> [b \in 1..shape[2] |-> j0 - 1 + (b - 1)]]
                 IN  /\ worker[r].i = iSeed /\ worker[r].j = jSeed
                     /\ (Len(wlog[r]) = 0 /\ wpc[r] = "bcast") =>
                           /\ worker[r].variables["i"] = NdArray(iSeed)
                           /\ worker[r].variables["j"] = NdArray(jSeed)
                           /\ worker[r].variables["_z"] = NdArray(Filled(shape, 0))

\* C9: Rank-to-tile mapping. The worker of rank p * NJ + q received the tile
\* range (iRanges[p], jRanges[q]) and seeded "i", "j", "_z" from it; every list
\* a gather returned has NI*NJ elements and its element r is what the worker of
\* rank r returned from the task the gather belongs to.
C9_RankToTileAndGather ==
    /\ RankToTile
    /\ \A g \in 1..Len(gather_log) :
          /\ Len(gather_log[g].list) = niProc * njProc
          /\ \A r \in Ranks :
                /\ Len(wlog[r]) >= gather_log[g].task
                /\ gather_log[g].list[r + 1] = wlog[r][gather_log[g].task].return_val

(***************************************************************************)
(* The same fabric driven by calls that exercise the routing of results:   *)
(* keyword arguments, results of the haloed shape, of the interior shape   *)
(* and of neither, results that are no array, and tuples of result_var.    *)
(***************************************************************************)
V1 == WorkerVariable("v1")

StoreFlags == {"True", "False"}

\* np.sum(a=j): one keyword argument that is a handle.
KwargsCall ==
    [func |-> PyFunction("sum"), args |-> <<>>,
     kwargs |-> <<[kw |-> "a", val |-> J]>>, result_var |-> PyNone]

StoreFuncCalls ==
    { KwargsCall,
      [func |-> PyFunction("crop"), args |-> <<I, PyInt(0)>>, kwargs |-> <<>>, result_var |-> V0],
      [func |-> PyFunction("crop"), args |-> <<I, PyInt(1)>>, kwargs |-> <<>>, result_var |-> V0],
      [func |-> PyFunction("crop"), args |-> <<I, PyInt(2)>>, kwargs |-> <<>>, result_var |-> V0],
      [func |-> PyFunction("sum"), args |-> <<J>>, kwargs |-> <<>>, result_var |-> V0],
      [func |-> PyFunction("sum"), args |-> <<J>>, kwargs |-> <<>>, result_var |-> PyNone],
      [func |-> PyFunction("double_triple"), args |-> <<J>>, kwargs |-> <<>>,
       result_var |-> PyTuple(<<V0, V1>>)],
      [func |-> PyFunction("split"), args |-> <<I>>, kwargs |-> <<>>,
       result_var |-> PyTuple(<<V0, V1>>)],
      [func |-> PyFunction("double_triple"), args |-> <<J>>, kwargs |-> <<>>,
       result_var |-> PyTuple(<<V0>>)],
      [func |-> PyFunction("crop"), args |-> <<I, PyInt(0)>>, kwargs |-> <<>>,
       result_var |-> PyTuple(<<V0, V1>>)] }

StoreMethodCalls ==
    { [variable |-> J, method_name |-> "copy", args |-> <<>>, kwargs |-> <<>>,
       result_var |-> V0],
      [variable |-> J, method_name |-> "sum", args |-> <<>>, kwargs |-> <<>>,
       result_var |-> PyNone] }

NextStore ==
    \/ \E r \in Ranks : WorkerStart(r)
    \/ \E r \in Ranks : WorkerBcast(r)
    \/ \E r \in Ranks : WorkerRecv(r)
    \/ \E c \in StoreFuncCalls, f \in StoreFlags : CmdFunc(c, f)
    \/ \E c \in StoreMethodCalls, f \in StoreFlags : CmdMethod(c, f)
    \/ CmdGather

SpecStore == Init /\ [][NextStore]_vars

\* The kwargs with every value that is a handle replaced by the array stored
\* under its key on worker w, every other value unchanged.
KwargsSubstituted(w, kwargs) ==
    [m \in 1..Len(kwargs) |->
        IF is_worker_variable(kwargs[m].val)
        THEN [kw |-> kwargs[m].kw, val |-> w.variables[kwargs[m].val.key]]
        ELSE kwargs[m]]

\* func(*args, **kwargs) for the call with keywords the model issues: np.sum(a=x).
CallKw(f, args, kwargs) ==
    IF f = "sum" /\ Len(args) = 0 /\ Len(kwargs) = 1 /\ kwargs[1].kw = "a"
    THEN Call("sum", <<kwargs[1].val>>)
    ELSE Raised

\* C11: Keyword-argument substitution. A func task that carries a non-empty
\* kwargs mapping ends with the value the callable returns when invoked with
\* the kwargs in which every handle was replaced by the worker's array.
C11_KwargsSubstitution ==
    \A r \in Ranks : \A k \in 1..Len(wlog[r]) :
        LET e == wlog[r][k]
        IN  (e.task.method_name = "func" /\ Len(e.task.args.kwargs) > 0) =>
                /\ ~e.failed
                /\ e.return_val = CallKw(e.task.args.func.v, e.subst.vals,
                                         KwargsSubstituted(worker[r], e.task.args.kwargs))

(***************************************************************************)
(* The fabric under fair scheduling: every worker process keeps running    *)
(* while it has a step to take, and a gather returns once every            *)
(* contribution is there. When the caller makes its next call, and whether *)
(* it ever deletes the commander, is left open.                            *)
(***************************************************************************)
LiveFlags == {"True", "None"}

\* A task that ends in a halo exchange on every worker, and one that raises
\* on every worker (np.sum gives no array to store).
LiveFuncCalls ==
    { [func |-> PyFunction("unpadded"), args |-> <<I, J>>, kwargs |-> <<>>, result_var |-> V0],
      [func |-> PyFunction("sum"), args |-> <<J>>, kwargs |-> <<>>, result_var |-> V0] }

\* Scattered calls in which rank 0 crops its tile by c cells and every other
\* rank by none: the result of rank 0 has the interior shape (c = 1) or no
\* admissible shape (c = 2), the others have the haloed shape.
LiveNonuniformCalls(n) ==
    { [func |-> PyFunction("crop"),
       nonuniform_args |-> [x \in 1..n |-> <<I, PyInt(IF x = 1 THEN c ELSE 0)>>],
       kwargs |-> <<>>, result_var |-> V0] : c \in {1, 2} }

\* One step of the worker process of rank r.
WorkerStep(r) ==
    /\ r \in Ranks
    /\ (WorkerStart(r) \/ WorkerBcast(r) \/ WorkerScatter(r) \/ WorkerRecv(r))

NextLive ==
    \/ \E r \in 0..(MaxWorkers - 1) : WorkerStep(r)
    \/ \E c \in LiveFuncCalls, f \in LiveFlags : CmdFunc(c, f)
    \/ \E c \in LiveNonuniformCalls(niProc * njProc), f \in LiveFlags : CmdFuncNonuniform(c, f)
    \/ CmdGather
    \/ CmdDel

SpecLive ==
    /\ Init
    /\ [][NextLive]_vars
    /\ \A r \in 0..(MaxWorkers - 1) : WF_vars(WorkerStep(r))
    /\ WF_vars(CmdGather)

InLoop(r) == wpc[r] \in {"bcast", "scatter", "recv"}

\* Worker r ran every task issued so far to its end.
CompletedAll(r) ==
    /\ Len(wlog[r]) = Len(issued)
    /\ \A k \in 1..Len(wlog[r]) : ~wlog[r][k].failed

\* C12 as stated: a worker leaves its loop only on receiving "finalize".
C12_LeavesOnlyOnFinalize_AsStated ==
    [][\A r \in Ranks :
          (InLoop(r) /\ ~InLoop(r)') =>
              (down[r] # <<>> /\ Head(down[r]).m = "finalize")]_vars

\* C12: Finalize termination. A worker leaves its loop either on receiving
\* the broadcast "finalize" or by an exception raised while it runs a task;
\* a worker that left on "finalize" takes no message, runs no task and
\* contributes to no gather afterwards; and once "finalize" was broadcast,
\* every worker that ran all tasks issued to their end eventually terminates.
C12_FinalizeTermination ==
    /\ [][\A r \in Ranks :
             (InLoop(r) /\ ~InLoop(r)') =>
                \/ wpc'[r] = "done" /\ down[r] # <<>> /\ Head(down[r]).m = "finalize"
                \/ /\ wpc'[r] = "failed"
                   /\ Len(wlog'[r]) = Len(wlog[r]) + 1
                   /\ wlog'[r][Len(wlog'[r])].failed]_vars
    /\ [][\A r \in Ranks :
             wpc[r] = "done" =>
                /\ wpc'[r] = "done" /\ wlog'[r] = wlog[r] /\ up'[r] = up[r]
                /\ down'[r] = down[r] /\ worker'[r] = worker[r]
                /\ \A r2 \in Ranks :
                      /\ Len(world'[<<r, r2>>]) <= Len(world[<<r, r2>>])
                      /\ Len(world'[<<r2, r>>]) >= Len(world[<<r2, r>>])]_vars
    /\ (finalize_bcasts > 0)
          ~> [](\A r \in Ranks : CompletedAll(r) => wpc[r] = "done")

\* A worker that ran two tasks to their end terminated on "finalize", next to
\* one that had left its loop through an exception.
C12_Witness ==
    /\ finalize_bcasts = 1
    /\ \E r \in Ranks : wpc[r] = "done" /\ Len(wlog[r]) = 2 /\ CompletedAll(r)
    /\ \E r \in Ranks : wpc[r] = "failed"

\* C13: Gather response. Whenever the commander waits in a gather, it
\* eventually has the gathered list or some worker has raised an error; and a
\* worker waiting in a halo exchange while the commander waits in the gather
\* eventually leaves it unless some worker raises - whatever the shapes of
\* the workers' results.
C13_GatherResponse ==
    /\ [](cpc = "gather" => <>(cpc = "ready" \/ \E r \in Ranks : wpc[r] = "failed"))
    /\ []((cpc = "gather" /\ \E r \in Ranks : wpc[r] = "recv")
             => <>((\A r \in Ranks : wpc[r] # "recv") \/ \E r \in Ranks : wpc[r] = "failed"))

\* C20: Error propagation. Whenever a worker has failed in a task while the
\* commander waits in the gather for it, the commander eventually leaves the
\* gather and "finalize" is broadcast.
C20_ErrorPropagation ==
    [](((\E r \in Ranks : wpc[r] = "failed") /\ cpc = "gather")
          => <>(cpc # "gather" /\ finalize_bcasts > 0))

\* What the callable of a func or method task returns on worker w: the raw
\* result, before _update_result looks at it.
RawResult(w, task) ==
    IF Len(task.args.kwargs) > 0 THEN Raised
    ELSE IF task.method_name = "func"
    THEN Call(task.args.func.v, substitute_args(w, task.args.args).args)
    ELSE IF task.args.method_name = "copy" THEN w.variables[task.args.variable.key]
    ELSE Call(task.args.method_name, <<w.variables[task.args.variable.key]>>)

\* Worker r takes a task off the broadcast in this step.
TakesTask(r) ==
    /\ wpc[r] = "bcast" /\ down[r] # <<>> /\ Head(down[r]).m = "task"
    /\ Len(down'[r]) = Len(down[r]) - 1

TileOf(r) == <<Rows(worker[r].i) - 2, Cols(worker[r].i) - 2>>

SentNothing(r) == \A r2 \in Ranks : Len(world'[<<r, r2>>]) <= Len(world[<<r, r2>>])

StoredBySingleKeyRule(w2, key, el, tile) ==
    /\ el.t = "ndarray"
    /\ key \in DOMAIN w2.variables
    /\ IF Shape(el.a) = <<tile[1] + 2, tile[2] + 2>>
       THEN w2.variables[key] = el
       ELSE /\ Shape(el.a) = tile
            /\ w2.variables[key].t = "ndarray"
            /\ Shape(w2.variables[key].a) = <<tile[1] + 2, tile[2] + 2>>
            /\ Interior(w2.variables[key].a) = el.a

\* C15: Tuple result key. When a task whose result key is a tuple of n
\* handles ends on a worker: if the callable's result is a tuple of exactly n
\* elements the task succeeds and every element is stored under the handle of
\* its position by the single-key rule; otherwise the task fails, at once, with
\* the variable store as it was. (The callables of the model take only
\* pre-seeded variables, so their result at the end of the task is their result
\* at its start.)
C15_TupleResultKey ==
    [][\A r \in Ranks :
          (/\ Len(wlog'[r]) = Len(wlog[r]) + 1
           /\ wlog'[r][Len(wlog'[r])].task.method_name = "func"
           /\ wlog'[r][Len(wlog'[r])].task.args.result_var.t = "tuple"
           /\ RawResult(worker[r], wlog'[r][Len(wlog'[r])].task) # Raised) =>
              LET e == wlog'[r][Len(wlog'[r])]
                  result_var == e.task.args.result_var.v
                  result == RawResult(worker[r], e.task)
              IN  IF result.t = "tuple" /\ Len(result.v) = Len(result_var)
                  THEN /\ ~e.failed
                       /\ e.return_val = PyNone
                       /\ \A m \in 1..Len(result_var) :
                             StoredBySingleKeyRule(worker'[r], result_var[m].key,
                                                   result.v[m], TileOf(r))
                  ELSE /\ e.failed
                       /\ wpc[r] = "bcast"
                       /\ worker'[r] = worker[r]
                       /\ SentNothing(r)]_vars

\* A worker ended a task that stored a pair, the first element after a halo
\* exchange, and then failed a task whose result was a pair for one handle.
C15_Witness ==
    \E r \in Ranks :
        /\ Len(wlog[r]) = 2
        /\ wlog[r][1].task.method_name = "func" /\ wlog[r][2].task.method_name = "func"
        /\ wlog[r][1].task.args.func = PyFunction("split") /\ ~wlog[r][1].failed
        /\ wlog[r][2].task.args.func = PyFunction("double_triple")
        /\ wlog[r][2].task.args.result_var = PyTuple(<<V0>>)
        /\ wlog[r][2].failed
        /\ worker[r].variables["v1"] = worker[r].variables["i"]
        /\ Shape(worker[r].variables["v0"].a) = Shape(worker[r].i)

\* The keys a result key names.
NamedKeys(result_var) ==
    IF result_var.t = "tuple" THEN {result_var.v[m].key : m \in 1..Len(result_var.v)}
    ELSE IF is_worker_variable(result_var) THEN {result_var.key}
    ELSE {}

\* The worker's side of result routing, step by step: the variable store of a
\* worker changes only at keys named by the result key of the task it is
\* running, its registry of custom functions not at all; and a func or method
\* task that ends contributes to the gather the callable's raw result if it
\* has no result key, None if it has one.
WorkerRouting ==
    \A r \in Ranks :
        /\ Started(r) =>
             /\ worker'[r].custom_funcs = worker[r].custom_funcs
             /\ \A key \in DOMAIN worker'[r].variables :
                   (key \notin DOMAIN worker[r].variables
                    \/ worker'[r].variables[key] # worker[r].variables[key]) =>
                       /\ TakesTask(r) \/ wpc[r] = "recv"
                       /\ key \in NamedKeys((IF wpc[r] = "recv" THEN pending[r].task
                                             ELSE Head(down[r]).task).args.result_var)
        /\ (Started(r) /\ Len(wlog'[r]) = Len(wlog[r]) + 1
              /\ ~wlog'[r][Len(wlog'[r])].failed) =>
             LET e == wlog'[r][Len(wlog'[r])]
                 contribution == IF e.task.args.result_var = PyNone
                                 THEN RawResult(worker[r], e.task) ELSE PyNone
             IN  /\ e.return_val = contribution
                 /\ up'[r] = IF e.gathered THEN Append(up[r], contribution) ELSE up[r]

\* What the commander gets from the gather of a func or method call: the raw
\* results if the call had no result key, [None, ..., None] if it had one.
CommanderGets ==
    \A g \in 1..Len(gather_log) :
        LET call == issued[gather_log[g].task]
            task == [method_name |-> call.method, args |-> call.call,
                     return_result |-> call.return_result]
        IN  \A r \in Ranks :
                gather_log[g].list[r + 1] =
                    IF call.call.result_var = PyNone
                    THEN RawResult(worker[r], task) ELSE PyNone

\* C16: Result routing. A func or method task with no result key leaves the
\* worker's variable store and registry unchanged and contributes the raw
\* result to the gather; one with a result key contributes None and changes
\* only the store entries its key names; and the commander gets from the
\* gather of the call the raw results, respectively [None, ..., None].
C16_ResultRouting == [][WorkerRouting]_vars /\ []CommanderGets

\* The worker's side of C16 on its own.
C16_WorkerSide == [][WorkerRouting]_vars

(***************************************************************************)
(* SpecSort: discover_values, then sort_values pass by pass, over every    *)
(* graph on MaxValues Values, cyclic ones included.                        *)
(***************************************************************************)
\* What Value v may be when producer references are not restricted: independent,
\* or produced from any Values, itself included, listed in either order.
AnyNodeChoices(n) ==
    LET Inputs == {S \in SUBSET (1..n) : Cardinality(S) <= MaxInputs}
    IN  {Independent}
            \cup {Dependent(AscSeq(S), FALSE) : S \in Inputs}
            \cup {Dependent(Reverse(AscSeq(S)), FALSE) : S \in Inputs}

AnyGraphs(n) == [1..n -> AnyNodeChoices(n)]

InitSort ==
    /\ RangesIdle
    /\ MpiIdle
    /\ graph \in AnyGraphs(MaxValues)
    /\ source_values \in {AscSeq(S) : S \in SUBSET (1..MaxValues)}
    /\ sink_values \in {AscSeq(S) : S \in (SUBSET (1..MaxValues)) \ {{}}}
    /\ concrete_sources = <<>> /\ triburary = <<>>
    /\ direct = <<>> /\ c_stage = <<>> /\ d_stage = <<>> /\ stages = <<>>
    /\ direct_out = <<>> /\ piped = <<>> /\ k_next = 0
    /\ discovered = <<>> /\ sort_state = <<>> /\ tmp_attr = <<>> /\ call_log = <<>>
    /\ value_attr = [v \in 1..Len(graph) |-> <<>>]
    /\ dpc = "walk"

\* unsorted_values, triburary_values = discover_values(source_values, sink_values),
\* with sorted_values = copy(source_values): the head of AtomicStage.__init__.
Discover ==
    /\ dpc = "walk"
    /\ discovered' = discover_values(graph, source_values, sink_values)
    /\ sort_state' = [sorted |-> source_values, unsorted |-> discovered'.values,
                      removed_any |-> FALSE]
    /\ dpc' = "sort"
    /\ UNCHANGED <<graph, source_values, sink_values, concrete_sources, triburary,
                   direct, c_stage, d_stage, stages, direct_out, piped, k_next,
                   tmp_attr, call_log, value_attr>>
    /\ UNCHANGED <<rangeVars, mpiVars>>

\* A slip sort_values could make: go on without progress.
progress_assumed(st) == TRUE

\* assert removed_any
progress_made(st) == st.removed_any

\* One turn of "while len(unsorted_values)": a pass, then the assertion.
SortPass ==
    /\ dpc = "sort"
    /\ Len(sort_state.unsorted) # 0
    /\ LET st == sort_pass(graph, [sort_state EXCEPT !.removed_any = FALSE], 1)
       IN  /\ sort_state' = st
           /\ dpc' = IF progress_made(st) THEN "sort" ELSE "error"
    /\ UNCHANGED <<graph, source_values, sink_values, concrete_sources, triburary,
                   direct, c_stage, d_stage, stages, direct_out, piped, k_next,
                   discovered, tmp_attr, call_log, value_attr>>
    /\ UNCHANGED <<rangeVars, mpiVars>>

\* The while condition is false: sort_values returns.
SortReturn ==
    /\ dpc = "sort"
    /\ Len(sort_state.unsorted) = 0
    /\ dpc' = "sorted"
    /\ UNCHANGED <<graph, source_values, sink_values, concrete_sources, triburary,
                   direct, c_stage, d_stage, stages, direct_out, piped, k_next,
                   discovered, sort_state, tmp_attr, call_log, value_attr>>
    /\ UNCHANGED <<rangeVars, mpiVars>>

NextSort == Discover \/ SortPass \/ SortReturn

\* The interpreter runs the call on: each step that can change the state is taken.
SpecSort == InitSort /\ [][NextSort]_vars /\ WF_vars(NextSort)

\* The owned, discovered Values a discovered Value waits for.
WaitsFor(v) ==
    {u \in 1..Len(graph) : InSeq(u, graph[v].inputs) /\ InSeq(u, discovered.values)}

RECURSIVE WaitsForClosure(_)
WaitsForClosure(S) ==
    LET T == S \cup UNION {WaitsFor(u) : u \in S}
    IN  IF T = S THEN S ELSE WaitsForClosure(T)

\* The unsorted Values contain a dependency cycle.
HasCycle ==
    \E v \in 1..Len(graph) :
        InSeq(v, discovered.values) /\ v \in WaitsForClosure(WaitsFor(v))

SortEnded == dpc \in {"sorted", "error"}

\* C18: sort_values terminates; each pass either moves a Value from unsorted to
\* sorted or signals an error; it signals an error exactly when the unsorted
\* Values contain a dependency cycle, and otherwise (an acyclic input) returns
\* with unsorted empty, sorted holding the known Values followed by all the
\* Values that were unsorted.
C18_CycleDetection ==
    /\ <>SortEnded
    /\ [][dpc = "sort" =>
             \/ dpc' = "error"
             \/ dpc' = "sorted" /\ sort_state.unsorted = <<>>
             \/ /\ dpc' = "sort"
                /\ Len(sort_state'.unsorted) < Len(sort_state.unsorted)
                /\ Len(sort_state'.sorted) + Len(sort_state'.unsorted)
                      = Len(sort_state.sorted) + Len(sort_state.unsorted)]_vars
    /\ [](SortEnded => (dpc = "error" <=> HasCycle))
    /\ [](dpc = "error" => sort_state.unsorted # <<>> /\ ~sort_state.removed_any)
    /\ [](dpc = "sorted" =>
             /\ sort_state.unsorted = <<>>
             /\ SubSeq(sort_state.sorted, 1, Len(source_values)) = source_values
             /\ IsPermutationOf(SubSeq(sort_state.sorted, Len(source_values) + 1,
                                       Len(sort_state.sorted)), discovered.values))

\* A cycle behind a Value that is sorted first: the error comes in a later pass.
C18_Witness ==
    /\ dpc = "error"
    /\ HasCycle
    /\ Len(sort_state.sorted) > Len(source_values)

\* The passes, taken one by one, end as sort_values does.
SortStepsAgree ==
    SortEnded =>
        LET s == sort_values(graph, source_values, discovered.values)
        IN  /\ s.ok = (dpc = "sorted")
            /\ s.sorted = sort_state.sorted
            /\ s.unsorted = sort_state.unsorted

SetOf(s) == {s[m] : m \in 1..Len(s)}

DuplicateFree(s) == \A i, j \in 1..Len(s) : s[i] = s[j] => i = j

RECURSIVE ReachedBehind(_, _)
\* The Values reached from the set R by following producer references, not
\* following them out of a Value of stop.
ReachedBehind(R, stop) ==
    LET T == R \cup UNION {SetOf(graph[v].inputs) :
                              v \in {u \in R : graph[u].owned /\ u \notin stop}}
    IN  IF T = R THEN R ELSE ReachedBehind(T, stop)

\* Reachable from a sink along some path / along a path that does not pass
\* through a source.
Reachable == ReachedBehind(SetOf(sink_values), {})
ReachableAvoidingSources == ReachedBehind(SetOf(sink_values), SetOf(source_values))

RECURSIVE FirstDiscovery(_, _)
\* The order in which a depth-first walk from the sinks, inputs taken in their
\* order, first meets the Values it records: todo is what is left to visit.
FirstDiscovery(todo, met) ==
    IF todo = <<>> THEN met
    ELSE LET v == Head(todo)
         IN  IF InSeq(v, source_values) \/ InSeq(v, met)
             THEN FirstDiscovery(Tail(todo), met)
             ELSE FirstDiscovery((IF graph[v].owned THEN graph[v].inputs ELSE <<>>)
                                     \o Tail(todo), Append(met, v))

Owned(v) == graph[v].owned
Ownerless(v) == ~graph[v].owned

\* What the claim says of the two lists but for the tributaries' extent.
DiscoveryLists ==
    /\ DuplicateFree(discovered.values)
    /\ DuplicateFree(discovered.triburary)
    /\ LET order == FirstDiscovery(sink_values, <<>>)
       IN  /\ discovered.values = SelectSeq(order, Owned)
           /\ discovered.triburary = SelectSeq(order, Ownerless)
    /\ SetOf(discovered.values) =
           {v \in ReachableAvoidingSources : graph[v].owned /\ ~InSeq(v, source_values)}
    /\ \A m \in 1..Len(source_values) :
           /\ ~InSeq(source_values[m], discovered.values)
           /\ ~InSeq(source_values[m], discovered.triburary)

\* C19 as stated: the tributaries are exactly the ownerless Values reachable from
\* a sink that are not in sources.
C19_DiscoveryClassification_AsStated ==
    dpc # "walk" =>
        /\ DiscoveryLists
        /\ SetOf(discovered.triburary) =
               {v \in Reachable : ~graph[v].owned /\ ~InSeq(v, source_values)}

\* C19: discover_values terminates, on cyclic graphs too, and returns two
\* duplicate-free lists in first-discovery order; the tributaries are exactly the
\* ownerless Values, and the internal Values exactly the owned Values, reachable
\* from a sink along paths that do not pass through a source; no source is in
\* either list, and the inputs of a source are not traversed through it.
C19_DiscoveryClassification ==
    /\ <>(dpc # "walk")
    /\ [](dpc # "walk" =>
            /\ DiscoveryLists
            /\ SetOf(discovered.triburary) =
                   {v \in ReachableAvoidingSources :
                        ~graph[v].owned /\ ~InSeq(v, source_values)})

\* A cyclic graph whose walk finds an internal Value and stops at a source, an
\* ownerless Value behind the source left out.
C19_Witness ==
    /\ dpc # "walk"
    /\ \E v \in 1..Len(graph) : v \in ReachedBehind(SetOf(graph[v].inputs), {})
    /\ \E m \in 1..Len(source_values) :
          source_values[m] \in Reachable /\ graph[source_values[m]].owned
    /\ discovered.values # <<>>
    /\ \E v \in Reachable \ ReachableAvoidingSources : ~graph[v].owned

(***************************************************************************)
(* SpecCalls: two AtomicStages over the same Values, invoked one after the *)
(* other; an operation's perform may raise, or invoke a stage itself. The  *)
(* attribute _tmp stays on the Values from one invocation to the next.     *)
(***************************************************************************)
NoHook == [kind |-> "none", at |-> 0, stage |-> 0, concrete |-> <<>>]

RECURSIVE compute_tmp_hooked(_, _, _, _, _, _, _, _)
\* The loop of lines 132-135 where the perform of sorted[hook.at] raises
\* ("raise") or invokes a stage ("call"); an exception of the invocation inside
\* leaves perform as it left the stage. inner collects what the invocation
\* inside returned.
compute_tmp_hooked(g, sorted, tmp, i, hook, resolver, stgs, inner) ==
    IF i > Len(sorted) THEN [ok |-> TRUE, tmp |-> tmp, inner |-> inner]
    ELSE LET v == sorted[i]
         IN  IF v \in DOMAIN tmp \/ ~InputsReadable(g, tmp, v)
             THEN [ok |-> FALSE, tmp |-> tmp, inner |-> inner]
             ELSE IF hook.kind = "raise" /\ hook.at = i
             THEN [ok |-> FALSE, tmp |-> tmp, inner |-> inner]
             ELSE IF hook.kind = "call" /\ hook.at = i
             THEN LET r == StageCall(g, stgs[hook.stage], hook.concrete, resolver, tmp)
                  IN  IF ~r.ok THEN [ok |-> FALSE, tmp |-> r.tmp, inner |-> <<r>>]
                      ELSE compute_tmp_hooked(g, sorted,
                               r.tmp @@ (v :> Perform(v, InputsTmp(g, tmp, v))),
                               i + 1, hook, resolver, stgs, <<r>>)
             ELSE compute_tmp_hooked(g, sorted,
                      tmp @@ (v :> Perform(v, InputsTmp(g, tmp, v))),
                      i + 1, hook, resolver, stgs, inner)

\* AtomicStage.__call__ as StageCall, with what perform does at hook.at.
StageCallHooked(g, stage, concrete, resolver, tmp0, hook, stgs) ==
    IF Len(stage.source_values) # Len(concrete)
    THEN [ok |-> FALSE, out |-> <<>>, tmp |-> tmp0, inner |-> <<>>]
    ELSE
    LET values == stage.source_values \o stage.triburary_values
        tmp_values == concrete \o [m \in 1..Len(stage.triburary_values) |->
                                      resolver[stage.triburary_values[m]]]
        a == assign_tmp(values, tmp_values, tmp0, 1)
        b == compute_tmp_hooked(g, stage.sorted_values, a.tmp, 1, hook, resolver, stgs, <<>>)
        all == values \o stage.sorted_values
    IN  IF ~a.ok THEN [ok |-> FALSE, out |-> <<>>, tmp |-> a.tmp, inner |-> <<>>]
        ELSE IF ~b.ok THEN [ok |-> FALSE, out |-> <<>>, tmp |-> b.tmp, inner |-> b.inner]
        ELSE IF \E m \in 1..Len(stage.sink_values) : stage.sink_values[m] \notin DOMAIN b.tmp
        THEN [ok |-> FALSE, out |-> <<>>, tmp |-> b.tmp, inner |-> b.inner]
        ELSE [ok |-> TRUE, out |-> sink_tuple(stage.sink_values, b.tmp),
              tmp |-> [v \in (DOMAIN b.tmp) \ {all[m] : m \in 1..Len(all)} |-> b.tmp[v]],
              inner |-> b.inner]

\* The stage over the formal sources, and the stage that takes everything
\* behind the sinks in: they share the sinks and what lies between.
ConstructStages ==
    /\ dpc = "graph"
    /\ stages' = <<AtomicStage(graph, source_values, sink_values),
                   AtomicStage(graph, <<>>, sink_values)>>
    /\ dpc' = "calls"
    /\ UNCHANGED <<graph, source_values, sink_values, concrete_sources, triburary,
                   direct, c_stage, d_stage, direct_out, piped, k_next,
                   discovered, sort_state, tmp_attr, call_log, value_attr>>
    /\ UNCHANGED <<rangeVars, mpiVars>>

\* The concrete sources a caller passes to stage k: one value per formal
\* source, all moved by shift.
ConcreteFor(k, shift) ==
    [m \in 1..Len(stages[k].source_values) |-> ConcreteSource(m) + 5 * shift]

\* What may happen in the performs of an invocation of stage k: nothing, the
\* perform of one internal Value raises, or it invokes a stage.
Hooks(k) ==
    {NoHook}
        \cup {[kind |-> "raise", at |-> i, stage |-> 0, concrete |-> <<>>] :
                 i \in 1..Len(stages[k].sorted_values)}
        \cup {[kind |-> "call", at |-> i, stage |-> k2, concrete |-> ConcreteFor(k2, 0)] :
                 i \in 1..Len(stages[k].sorted_values), k2 \in 1..Len(stages)}

LogEntry(k, concrete, r, own_fault, inside) ==
    [stage |-> k, concrete |-> concrete, ok |-> r.ok, out |-> r.out,
     own_fault |-> own_fault, inside |-> inside]

\* stages[k](concrete, triburary) from the outside, run to its return or to the
\* exception that leaves it; with one source too many the assertion of line 118
\* fails.
Invoke ==
    /\ dpc = "calls"
    /\ Len(call_log) < MaxCalls
    /\ \E k \in 1..Len(stages), shift \in 0..1, extra \in BOOLEAN :
          \E hook \in (IF extra THEN {NoHook} ELSE Hooks(k)) :
             LET concrete == IF extra THEN Append(ConcreteFor(k, shift), 0)
                             ELSE ConcreteFor(k, shift)
                 r == StageCallHooked(graph, stages[k], concrete, triburary, tmp_attr,
                                      hook, stages)
                 perform_raised ==
                     \/ hook.kind = "raise"
                     \/ hook.kind = "call" /\ r.inner # <<>> /\ ~r.inner[1].ok
             IN  /\ tmp_attr' = r.tmp
                 /\ call_log' =
                       call_log
                         \o [m \in 1..Len(r.inner) |->
                               LogEntry(hook.stage, hook.concrete, r.inner[m], FALSE, TRUE)]
                         \o <<LogEntry(k, concrete, r, extra \/ perform_raised, FALSE)>>
    /\ UNCHANGED <<graph, source_values, sink_values, concrete_sources, triburary,
                   direct, c_stage, d_stage, stages, direct_out, piped, k_next,
                   discovered, sort_state, dpc, value_attr>>
    /\ UNCHANGED <<rangeVars, mpiVars>>

NextCalls == ConstructStages \/ Invoke

SpecCalls == InitStage /\ [][NextCalls]_vars

\* What stage k returns for these concrete sources when nothing else has
\* touched the Values.
FreshResult(k, concrete) == StageCall(graph, stages[k], concrete, triburary, <<>>)

\* C17: Stage statelessness. Every invocation whose own precondition holds and
\* whose own performs return - one that follows an aborted invocation and one
\* made from inside a perform included - returns what its concrete sources and
\* the resolver determine; and no invocation alters the lists of the stage.
C17_StageStatelessness ==
    /\ [](\A n \in 1..Len(call_log) :
            ~call_log[n].own_fault =>
                /\ call_log[n].ok = FreshResult(call_log[n].stage, call_log[n].concrete).ok
                /\ call_log[n].out = FreshResult(call_log[n].stage, call_log[n].concrete).out)
    /\ [][dpc = "calls" => stages' = stages]_vars

\* As long as every invocation returned and none was made from inside a
\* perform, the Values carry no _tmp and each result is the fresh one.
StatelessWhileNoneAborts ==
    (\A n \in 1..Len(call_log) : call_log[n].ok /\ ~call_log[n].inside) =>
        /\ tmp_attr = <<>>
        /\ \A n \in 1..Len(call_log) :
              call_log[n].out = FreshResult(call_log[n].stage, call_log[n].concrete).out

(***************************************************************************)
(* The attributes of the Values after the operations of symbolic_value.py. *)
(***************************************************************************)
\* The last operation on the Values has returned (an invocation that raised has
\* not).
LastOperationReturned ==
    \/ dpc = "constructed"
    \/ dpc = "direct" /\ direct_out.ok
    \/ dpc \in {"piping", "done"} /\ piped.ok

\* C21: Value immutability. After AtomicStage construction, a completed
\* invocation, build_graph and decompose have returned, no Value carries an
\* attribute besides shape and owner: no id, no stage index, no scratch result.
C21_ValueImmutability ==
    LastOperationReturned =>
        \A v \in 1..Len(graph) :
            /\ value_attr[v] = <<>>
            /\ v \notin DOMAIN tmp_attr

\* What does hold: the ids of build_graph and the scratch results of completed
\* invocations are removed; the stage indices are all that stays.
OnlyStageIndicesRemain ==
    LastOperationReturned =>
        \A v \in 1..Len(graph) :
            /\ v \notin DOMAIN tmp_attr
            /\ DOMAIN value_attr[v] \subseteq {"create_stage", "discard_stage"}
            /\ dpc \in {"constructed", "direct"} => value_attr[v] = <<>>

(***************************************************************************)
(* Halo exchanges per stage.                                               *)
(***************************************************************************)
RECURSIVE InternalAncestors(_, _)
\* The internal Values of the stage that the Values of S depend on through
\* internal Values of the stage, S included.
InternalAncestors(stage, S) ==
    LET T == S \cup {u \in SetOf(stage.sorted_values) :
                        \E w \in S : InSeq(u, graph[w].inputs)}
    IN  IF T = S THEN S ELSE InternalAncestors(stage, T)

\* The internal Values of the stage that v depends on.
FeedsInto(stage, v) ==
    InternalAncestors(stage, {u \in SetOf(stage.sorted_values) : InSeq(u, graph[v].inputs)})

HaloOnce(stage) ==
    \A v \in SetOf(stage.sorted_values) :
        graph[v].access_neighbor =>
            \A w \in FeedsInto(stage, v) : ~graph[w].access_neighbor

\* The edges build_graph handed to the partitioner: (id of the input, id of
\* the Value, stencil flag), the ids counting all_values from 0.
PartitionEdges ==
    build_graph(graph, all_values_of(graph, source_values, sink_values),
                [v \in 1..Len(graph) |-> <<>>]).edges

\* The answer is a schedule of the partition graph: the sources, and only they,
\* are created at 0; along every edge the Value is created no earlier than its
\* input, later if the edge is a stencil edge, and no later than its input is
\* discarded; the sinks are kept to the end.
IsSchedule ==
    LET all == all_values_of(graph, source_values, sink_values)
    IN  /\ \A i \in 1..Len(all) : (c_stage[i] = 0) <=> InSeq(all[i], source_values)
        /\ \A m \in 1..Len(PartitionEdges) :
              LET e == PartitionEdges[m]
              IN  /\ c_stage[e[1] + 1] + e[3] <= c_stage[e[2] + 1]
                  /\ c_stage[e[2] + 1] <= d_stage[e[1] + 1]
        /\ \A i \in 1..Len(all) :
              InSeq(all[i], sink_values) => d_stage[i] = SeqMax(d_stage, 1)

\* C22 as stated: for every partitioner answer with c[v] <= d[v], in every stage
\* decompose returns no internal Value produced by an access_neighbor operation
\* depends, through internal Values of the stage, on another such Value.
C22_OneHaloPerStage_AsStated ==
    dpc \in {"piping", "done"} => \A k \in 1..Len(stages) : HaloOnce(stages[k])

\* C22 amended: the same, for every partitioner answer that is a schedule of the
\* partition graph.
C22_OneHaloPerStage ==
    (dpc \in {"piping", "done"} /\ IsSchedule) =>
        \A k \in 1..Len(stages) : HaloOnce(stages[k])

\* Two stencils with a plain operation between them, split in two stages: the
\* first computes 2 and 3, the second computes 4 from 3.
C22_Witness ==
    /\ dpc = "piping"
    /\ graph = StencilChain.graph
    /\ IsSchedule
    /\ Len(stages) = 2
    /\ SetOf(stages[1].sorted_values) = {2, 3}
    /\ stages[2].source_values = <<3>>
    /\ stages[2].sorted_values = <<4>>

(***************************************************************************)
(* The torus of the workers.                                               *)
(***************************************************************************)
\* On every process grid up to MaxProc x MaxProc, the four neighbor ranks of
\* every rank are ranks of the grid and the relation is mutual.
TorusArithmetic ==
    \A nI \in 1..MaxProc, nJ \in 1..MaxProc :
        \A i \in 0..(nI - 1), j \in 0..(nJ - 1) :
            LET r == RankOf(i, j, nJ)
                nb == NeighborRanks(i, j, nI, nJ)
                Of(q) == NeighborRanks(q \div nJ, q % nJ, nI, nJ)
            IN  /\ \A n \in 1..4 : nb[n] \in 0..(nI * nJ - 1)
                /\ Of(nb[1])[2] = r
                /\ Of(nb[2])[1] = r
                /\ Of(nb[3])[4] = r
                /\ Of(nb[4])[3] = r

\* The same of the neighbor ranks the workers hold.
NeighborsMutual ==
    /\ TorusArithmetic
    /\ \A r \in Ranks : Started(r) =>
          LET nb == worker[r].neighbor_ranks
          IN  /\ \A n \in 1..4 : nb[n] \in Ranks
              /\ Started(nb[1]) => worker[nb[1]].neighbor_ranks[2] = r
              /\ Started(nb[2]) => worker[nb[2]].neighbor_ranks[1] = r
              /\ Started(nb[3]) => worker[nb[3]].neighbor_ranks[4] = r
              /\ Started(nb[4]) => worker[nb[4]].neighbor_ranks[3] = r

\* Worker r waits in a Recv of a halo exchange.
InRecv(r) == r \in DOMAIN wpc /\ wpc[r] = "recv"

\* No process is inside a task or a call, and nothing is on its way to a worker.
Quiescent ==
    /\ cpc = "ready"
    /\ \A r \in Ranks : wpc[r] \in {"bcast", "done", "failed"} /\ down[r] = <<>>

\* C23: Torus neighbor symmetry. The neighbor ranks sent to every rank are
\* ranks of the grid and mutual; every blocking receive a worker posts in a
\* halo exchange gets a message from the named neighbor, so the worker leaves
\* it; and no message of a halo exchange is left unreceived.
C23_TorusNeighborSymmetry ==
    /\ []NeighborsMutual
    /\ \A r \in 0..(MaxWorkers - 1) : [](InRecv(r) => <>(~InRecv(r)))
    /\ [](Quiescent => \A r, r2 \in Ranks :
             (wpc[r] = "bcast" /\ wpc[r2] = "bcast") => world[<<r, r2>>] = <<>>)
====
